---- MODULE Spec2Model ----
(***************************************************************************)
(* Model of the cost aggregation core of hotspot (src/src/models/data.cpp):*)
(* the top-down build, the per-library aggregation, the caller-callee      *)
(* build and the symbol prettifier.                                        *)
(*                                                                         *)
(* A bottom-up tree is held as three parallel sequences indexed by the     *)
(* node (1..n, the order of creation, so a parent precedes its children    *)
(* and the children of a node are ordered by index).  buParent[i] = 0      *)
(* says that i is a child of the root; such a node has no parent           *)
(* back-reference (node->parent is null).                                  *)
(***************************************************************************)
EXTENDS Integers, Sequences, FiniteSets, TLC

VARIABLES
    numTypes,        \* bottomUpData.costs.numTypes()
    buParent,        \* BottomUp::parent of each node of bottomUpData.root
    buSymbol,        \* BottomUp::symbol of each node
    buCost,          \* bottomUpData.costs.itemCost(id) of each node
    pc,              \* the build under way
    skipFirstLevel,  \* the argument of TopDownResults::fromBottomUp
    tdPos,           \* the next step of fromBottomUp
    tdGroup,         \* topDownGroup, the cursor the rows of a group start at
    tdNodes,         \* the nodes below TopDownResults::root, in order of creation
    maxId,           \* the next id of a top-down node
    tdIncl,          \* TopDownResults::inclusiveCosts
    tdSelf,          \* TopDownResults::selfCosts
    plNodes,         \* PerLibraryResults::root.children
    plCosts,         \* PerLibraryResults::costs
    ccPos,           \* the next row of buildCallerCalleeResult
    ccEntries,       \* CallerCalleeResults::entries
    ccIncl,          \* CallerCalleeResults::inclusiveCosts
    ccSelf,          \* CallerCalleeResults::selfCosts
    ccBuilds,        \* the calls of callerCalleesFromBottomUpData on the results object
    name,            \* the argument of the first Data::prettifySymbol call
    prettified,      \* the results of the successive Data::prettifySymbol calls
    m_host,               \* RecordHost::m_host
    m_error,              \* RecordHost::m_error
    m_cwd,                \* RecordHost::m_cwd
    m_clientApplication,  \* RecordHost::m_clientApplication
    m_outputFileName,     \* RecordHost::m_outputFileName
    m_recordType,         \* RecordHost::m_recordType
    m_pids,               \* RecordHost::m_pids
    m_isPerfInstalled,    \* RecordHost::m_isPerfInstalled
    m_perfCapabilities,   \* RecordHost::m_perfCapabilities
    m_checkPerfCapabilitiesJob,  \* the job of RecordHost::m_checkPerfCapabilitiesJob
    m_checkPerfInstalledJob,     \* the job of RecordHost::m_checkPerfInstalledJob
    hostCall,             \* the last operation of the RecordHost and its argument
    hostSignals,          \* the signals the last operation of the RecordHost emitted
    m_recordProcess,      \* PerfRecordSSH::m_recordProcess
    m_userTerminated,     \* PerfRecordSSH::m_userTerminated
    m_outputFile,         \* PerfRecordSSH::m_outputFile
    recordCall,           \* the last operation of the PerfRecordSSH
    recordSignals,        \* the signals the last operation of the PerfRecordSSH emitted
    m_symbolStack,        \* ResultsDisassemblyPage::m_symbolStack
    m_stackIndex,         \* ResultsDisassemblyPage::m_stackIndex
    m_callerCalleeResults,  \* the keys of ResultsDisassemblyPage::m_callerCalleeResults.entries
    pageCall,             \* the last event of the ResultsDisassemblyPage and its argument
    stackChanged          \* what the last event's stackChanged handler found

prettifyVars == <<name, prettified>>
inputVars == <<numTypes, buParent, buSymbol, buCost>>
tdVars == <<skipFirstLevel, tdPos, tdGroup, tdNodes, maxId, tdIncl, tdSelf>>
plVars == <<plNodes, plCosts>>
ccVars == <<ccPos, ccEntries, ccIncl, ccSelf, ccBuilds>>
hostVars == <<m_host, m_error, m_cwd, m_clientApplication, m_outputFileName, m_recordType,
              m_pids, m_isPerfInstalled, m_perfCapabilities, m_checkPerfCapabilitiesJob,
              m_checkPerfInstalledJob, hostCall, hostSignals>>
recordVars == <<m_recordProcess, m_userTerminated, m_outputFile, recordCall, recordSignals>>
pageVars == <<m_symbolStack, m_stackIndex, m_callerCalleeResults, pageCall, stackChanged>>
dataVars == <<inputVars, pc, tdVars, plVars, ccVars, prettifyVars>>
vars == <<dataVars, hostVars, recordVars, pageVars>>

(* ------------------------------ bounds -------------------------------- *)
MaxNodes == 3
MaxTypes == 2
MaxTokens == 4
MaxCalls == 2
MaxBuilds == 2
MaxFairNodes == 2
MaxWritten == 2
MaxStack == 3

(* ------------------------------ symbols ------------------------------- *)
Sym(sym, bin) == [symbol |-> sym, binary |-> bin]
SymMain == Sym("main", "app")
SymFoo == Sym("foo", "app")
SymBar == Sym("bar", "libbar")
SymbolSet == {SymMain, SymFoo, SymBar}

(* ------------------------------ ItemCost ------------------------------ *)
Zero(n) == [t \in 1..n |-> 0]
VecAdd(a, b) == [t \in DOMAIN a |-> a[t] + b[t]]
VecSub(a, b) == [t \in DOMAIN a |-> a[t] - b[t]]

RECURSIVE SumTo(_, _)
SumTo(v, k) == IF k = 0 THEN 0 ELSE v[k] + SumTo(v, k - 1)
VecSum(v) == SumTo(v, Len(v))

(* The cost vectors the inputs are drawn from: with one cost type the     *)
(* values 0, 1 and 10, with several types 0 and 1 in each type.           *)
CostVectors(n) == IF n = 1 THEN {<<0>>, <<1>>, <<10>>} ELSE [1..n -> {0, 1}]

(* ------------------------------- Costs -------------------------------- *)
EmptyCosts == [i \in {} |-> 0]
ItemCostOf(costs, id, n) == IF id \in DOMAIN costs THEN costs[id] ELSE Zero(n)
CostsAdd(costs, id, delta) ==
    IF id \in DOMAIN costs THEN [costs EXCEPT ![id] = VecAdd(@, delta)]
    ELSE costs @@ (id :> delta)

(* --------------------------- bottom-up tree --------------------------- *)
NumNodes == Len(buParent)

RECURSIVE ChildrenFrom(_, _)
ChildrenFrom(p, i) ==
    IF i > NumNodes THEN <<>>
    ELSE IF buParent[i] = p THEN <<i>> \o ChildrenFrom(p, i + 1)
    ELSE ChildrenFrom(p, i + 1)
Children(p) == ChildrenFrom(p, 1)

rowCost(i) == buCost[i]

RECURSIVE SumRowCosts(_)
SumRowCosts(rows) ==
    IF rows = <<>> THEN Zero(numTypes)
    ELSE VecAdd(rowCost(Head(rows)), SumRowCosts(Tail(rows)))

childCost(i) == SumRowCosts(Children(i))
Diff(i) == VecSub(rowCost(i), childCost(i))
(* variant: only the first cost type is looked at                          *)
IsLeafRow_FirstType(i) == Diff(i)[1] # 0

IsLeafRow(i) == VecSum(Diff(i)) # 0

RECURSIVE PostOrder(_)
RECURSIVE PostOrderList(_)
PostOrderList(rows) ==
    IF rows = <<>> THEN <<>>
    ELSE PostOrder(Head(rows)) \o <<Head(rows)>> \o PostOrderList(Tail(rows))
PostOrder(p) == PostOrderList(Children(p))

(* ----------------------------- top-down -------------------------------- *)
TdChildren(nodes, p) == {k \in 1..Len(nodes) : nodes[k].parent = p}

entryForSymbol(nodes, mid, stack, symbol) ==
    LET same == {k \in TdChildren(nodes, stack) : nodes[k].symbol = symbol}
    IN IF same # {}
       THEN [nodes |-> nodes, maxId |-> mid,
             frame |-> CHOOSE k \in same : \A j \in same : k <= j]
       ELSE [nodes |-> Append(nodes, [id |-> mid, symbol |-> symbol, parent |-> stack]),
             maxId |-> mid + 1, frame |-> Len(nodes) + 1]

(* variant: the walk stops below the first level in either mode           *)
isLastNode_EitherMode(node, skip) ==
    \/ buParent[node] = 0
    \/ buParent[buParent[node]] = 0

isLastNode(node, skip) ==
    \/ buParent[node] = 0
    \/ skip /\ buParent[buParent[node]] = 0

(* variant: the cursor is not moved down to the frame found                *)
RECURSIVE TopDownWalk_CursorStays(_, _, _, _, _)
TopDownWalk_CursorStays(st, node, stack, diff, skip) ==
    LET e == entryForSymbol(st.nodes, st.maxId, stack, buSymbol[node])
        id == e.nodes[e.frame].id
        incl == CostsAdd(st.incl, id, diff)
    IN IF isLastNode(node, skip)
       THEN [nodes |-> e.nodes, maxId |-> e.maxId, incl |-> incl,
             self |-> CostsAdd(st.self, id, diff)]
       ELSE TopDownWalk_CursorStays([nodes |-> e.nodes, maxId |-> e.maxId,
                                     incl |-> incl, self |-> st.self],
                                    buParent[node], stack, diff, skip)

(* variant: the self cost is credited at every frame of the walk           *)
RECURSIVE TopDownWalk_SelfEveryFrame(_, _, _, _, _)
TopDownWalk_SelfEveryFrame(st, node, stack, diff, skip) ==
    LET e == entryForSymbol(st.nodes, st.maxId, stack, buSymbol[node])
        id == e.nodes[e.frame].id
        next == [nodes |-> e.nodes, maxId |-> e.maxId,
                 incl |-> CostsAdd(st.incl, id, diff),
                 self |-> CostsAdd(st.self, id, diff)]
    IN IF isLastNode(node, skip) THEN next
       ELSE TopDownWalk_SelfEveryFrame(next, buParent[node], e.frame, diff, skip)

(* variant: the inclusive cost is credited at the last frame only          *)
RECURSIVE TopDownWalk_InclusiveLast(_, _, _, _, _)
TopDownWalk_InclusiveLast(st, node, stack, diff, skip) ==
    LET e == entryForSymbol(st.nodes, st.maxId, stack, buSymbol[node])
        id == e.nodes[e.frame].id
    IN IF isLastNode(node, skip)
       THEN [nodes |-> e.nodes, maxId |-> e.maxId,
             incl |-> CostsAdd(st.incl, id, diff),
             self |-> CostsAdd(st.self, id, diff)]
       ELSE TopDownWalk_InclusiveLast([nodes |-> e.nodes, maxId |-> e.maxId,
                                       incl |-> st.incl, self |-> st.self],
                                      buParent[node], e.frame, diff, skip)

RECURSIVE TopDownWalk(_, _, _, _, _)
TopDownWalk(st, node, stack, diff, skip) ==
    LET e == entryForSymbol(st.nodes, st.maxId, stack, buSymbol[node])
        id == e.nodes[e.frame].id
        incl == CostsAdd(st.incl, id, diff)
    IN IF isLastNode(node, skip)
       THEN [nodes |-> e.nodes, maxId |-> e.maxId, incl |-> incl,
             self |-> CostsAdd(st.self, id, diff)]
       ELSE TopDownWalk([nodes |-> e.nodes, maxId |-> e.maxId, incl |-> incl,
                         self |-> st.self],
                        buParent[node], e.frame, diff, skip)

buildTopDownRow(st, row, stack, skip) ==
    IF IsLeafRow(row) THEN TopDownWalk(st, row, stack, Diff(row), skip) ELSE st

RECURSIVE GroupPlan(_)
GroupPlan(groups) ==
    IF groups = <<>> THEN <<>>
    ELSE LET g == Head(groups)
             rows == PostOrder(g)
         IN <<[kind |-> "group", node |-> g]>>
            \o [k \in 1..Len(rows) |-> [kind |-> "row", node |-> rows[k]]]
            \o <<[kind |-> "sum", node |-> g]>>
            \o GroupPlan(Tail(groups))

TopDownPlan(skip) ==
    IF skip THEN GroupPlan(Children(0))
    ELSE LET rows == PostOrder(0)
         IN [k \in 1..Len(rows) |-> [kind |-> "row", node |-> rows[k]]]

TdState == [nodes |-> tdNodes, maxId |-> maxId, incl |-> tdIncl, self |-> tdSelf]

(* variant: the root itself is copied into the result as a first frame     *)
StartTopDown_RootFrame ==
    /\ pc = "init"
    /\ \E skip \in BOOLEAN :
         /\ skipFirstLevel' = skip
    /\ pc' = "td"
    /\ tdPos' = 1
    /\ tdGroup' = 0
    /\ tdNodes' = <<[id |-> 0, symbol |-> Sym("", ""), parent |-> 0]>>
    /\ maxId' = 1
    /\ tdIncl' = EmptyCosts
    /\ tdSelf' = EmptyCosts
    /\ UNCHANGED <<hostVars, recordVars, pageVars, prettifyVars, inputVars, plVars, ccVars>>

StartTopDown ==
    /\ pc = "init"
    /\ \E skip \in BOOLEAN :
         /\ skipFirstLevel' = skip
    /\ pc' = "td"
    /\ tdPos' = 1
    /\ tdGroup' = 0
    /\ tdNodes' = <<>>
    /\ maxId' = 0
    /\ tdIncl' = EmptyCosts
    /\ tdSelf' = EmptyCosts
    /\ UNCHANGED <<hostVars, recordVars, pageVars, prettifyVars, inputVars, plVars, ccVars>>

TdItem == TopDownPlan(skipFirstLevel)[tdPos]
TdRunning == pc = "td" /\ tdPos <= Len(TopDownPlan(skipFirstLevel))

(* variant: the first level is copied node by node                         *)
TopDownGroup_Copy ==
    /\ TdRunning
    /\ TdItem.kind = "group"
    /\ tdNodes' = Append(tdNodes, [id |-> maxId, symbol |-> buSymbol[TdItem.node],
                                   parent |-> 0])
    /\ maxId' = maxId + 1
    /\ tdGroup' = Len(tdNodes) + 1
    /\ tdPos' = tdPos + 1
    /\ UNCHANGED <<hostVars, recordVars, pageVars, prettifyVars, inputVars, pc, skipFirstLevel, tdIncl, tdSelf, plVars, ccVars>>

TopDownGroup ==
    /\ TdRunning
    /\ TdItem.kind = "group"
    /\ LET e == entryForSymbol(tdNodes, maxId, 0, buSymbol[TdItem.node])
       IN /\ tdNodes' = e.nodes
          /\ maxId' = e.maxId
          /\ tdGroup' = e.frame
    /\ tdPos' = tdPos + 1
    /\ UNCHANGED <<hostVars, recordVars, pageVars, prettifyVars, inputVars, pc, skipFirstLevel, tdIncl, tdSelf, plVars, ccVars>>

(* variant: the rows of a group are walked from the root of the result     *)
TopDownRow_FromRoot ==
    /\ TdRunning
    /\ TdItem.kind = "row"
    /\ LET st == buildTopDownRow(TdState, TdItem.node, 0, skipFirstLevel)
       IN /\ tdNodes' = st.nodes
          /\ maxId' = st.maxId
          /\ tdIncl' = st.incl
          /\ tdSelf' = st.self
    /\ tdPos' = tdPos + 1
    /\ UNCHANGED <<hostVars, recordVars, pageVars, prettifyVars, inputVars, pc, skipFirstLevel, tdGroup, plVars, ccVars>>

TopDownRow ==
    /\ TdRunning
    /\ TdItem.kind = "row"
    /\ LET st == buildTopDownRow(TdState, TdItem.node, tdGroup, skipFirstLevel)
       IN /\ tdNodes' = st.nodes
          /\ maxId' = st.maxId
          /\ tdIncl' = st.incl
          /\ tdSelf' = st.self
    /\ tdPos' = tdPos + 1
    /\ UNCHANGED <<hostVars, recordVars, pageVars, prettifyVars, inputVars, pc, skipFirstLevel, tdGroup, plVars, ccVars>>

(* variant: the group's inclusive cost is assigned, not accumulated        *)
SumInclusive_Assign(incl, groupId, childIds) ==
    IF childIds = <<>> THEN incl
    ELSE (groupId :> ItemCostOf(incl, childIds[Len(childIds)], numTypes)) @@ incl

RECURSIVE SumInclusive(_, _, _)
SumInclusive(incl, groupId, childIds) ==
    IF childIds = <<>> THEN incl
    ELSE SumInclusive(CostsAdd(incl, groupId, ItemCostOf(incl, Head(childIds), numTypes)),
                      groupId, Tail(childIds))

RECURSIVE TdChildSeqFrom(_, _, _)
TdChildSeqFrom(nodes, p, k) ==
    IF k > Len(nodes) THEN <<>>
    ELSE IF nodes[k].parent = p THEN <<k>> \o TdChildSeqFrom(nodes, p, k + 1)
    ELSE TdChildSeqFrom(nodes, p, k + 1)
TdChildSeq(nodes, p) == TdChildSeqFrom(nodes, p, 1)

TopDownSum ==
    /\ TdRunning
    /\ TdItem.kind = "sum"
    /\ LET kids == TdChildSeq(tdNodes, tdGroup)
           ids == [k \in 1..Len(kids) |-> tdNodes[kids[k]].id]
       IN tdIncl' = SumInclusive(tdIncl, tdNodes[tdGroup].id, ids)
    /\ tdPos' = tdPos + 1
    /\ UNCHANGED <<hostVars, recordVars, pageVars, prettifyVars, inputVars, pc, skipFirstLevel, tdGroup, tdNodes, maxId, tdSelf,
                   plVars, ccVars>>

FinishTopDown ==
    /\ pc = "td"
    /\ tdPos > Len(TopDownPlan(skipFirstLevel))
    /\ pc' = "tdDone"
    /\ UNCHANGED <<hostVars, recordVars, pageVars, prettifyVars, inputVars, tdVars, plVars, ccVars>>

(* ----------------------------- per library ----------------------------- *)
RECURSIVE TdPreOrder(_, _)
RECURSIVE TdPreOrderList(_, _)
TdPreOrderList(nodes, kids) ==
    IF kids = <<>> THEN <<>>
    ELSE <<Head(kids)>> \o TdPreOrder(nodes, Head(kids)) \o TdPreOrderList(nodes, Tail(kids))
TdPreOrder(nodes, p) == TdPreOrderList(nodes, TdChildSeq(nodes, p))

EmptyPerLibrary == [index |-> [b \in {} |-> 0], nodes |-> <<>>, costs |-> EmptyCosts]

(* variant: the cost is added only when the library entry is created      *)
buildPerLibraryChild_FirstOnly(st, child, costs) ==
    LET binary == child.symbol.binary
        idx == Cardinality(DOMAIN st.index)
    IN IF binary \in DOMAIN st.index THEN st
       ELSE [index |-> st.index @@ (binary :> idx),
             nodes |-> Append(st.nodes, [id |-> idx, symbol |-> Sym(binary, ""), children |-> <<>>]),
             costs |-> CostsAdd(st.costs, idx, ItemCostOf(costs, child.id, numTypes))]

(* variant: a new library is put in front of the others                    *)
buildPerLibraryChild_PushFront(st, child, costs) ==
    LET binary == child.symbol.binary
        found == binary \in DOMAIN st.index
        idx == IF found THEN st.index[binary] ELSE Cardinality(DOMAIN st.index)
    IN [index |-> IF found THEN st.index ELSE st.index @@ (binary :> idx),
        nodes |-> IF found THEN st.nodes
                  ELSE <<[id |-> idx, symbol |-> Sym(binary, ""), children |-> <<>>]>> \o st.nodes,
        costs |-> CostsAdd(st.costs, idx, ItemCostOf(costs, child.id, numTypes))]

buildPerLibraryChild(st, child, costs) ==
    LET binary == child.symbol.binary
        found == binary \in DOMAIN st.index
        idx == IF found THEN st.index[binary] ELSE Cardinality(DOMAIN st.index)
    IN [index |-> IF found THEN st.index ELSE st.index @@ (binary :> idx),
        nodes |-> IF found THEN st.nodes
                  ELSE Append(st.nodes, [id |-> idx, symbol |-> Sym(binary, ""), children |-> <<>>]),
        costs |-> CostsAdd(st.costs, idx, ItemCostOf(costs, child.id, numTypes))]

RECURSIVE buildPerLibrary(_, _, _, _)
buildPerLibrary(st, nodes, order, costs) ==
    IF order = <<>> THEN st
    ELSE buildPerLibrary(buildPerLibraryChild(st, nodes[Head(order)], costs),
                         nodes, Tail(order), costs)

(* variant: the libraries are given the inclusive costs                    *)
FromTopDown_Inclusive ==
    /\ pc = "tdDone"
    /\ LET st == buildPerLibrary(EmptyPerLibrary, tdNodes, TdPreOrder(tdNodes, 0), tdIncl)
       IN /\ plNodes' = st.nodes
          /\ plCosts' = st.costs
    /\ pc' = "plDone"
    /\ UNCHANGED <<hostVars, recordVars, pageVars, prettifyVars, inputVars, tdVars, ccVars>>

FromTopDown ==
    /\ pc = "tdDone"
    /\ LET st == buildPerLibrary(EmptyPerLibrary, tdNodes, TdPreOrder(tdNodes, 0), tdSelf)
       IN /\ plNodes' = st.nodes
          /\ plCosts' = st.costs
    /\ pc' = "plDone"
    /\ UNCHANGED <<hostVars, recordVars, pageVars, prettifyVars, inputVars, tdVars, ccVars>>

(* ---------------------------- caller-callee ---------------------------- *)
EmptyEntries == [s \in {} |-> 0]
EmptyEdges == [s \in {} |-> 0]

(* Q_ASSERT(lhs.size() == rhs.size()) of add(); a zero-length lhs is not   *)
(* asserted on                                                             *)
sameSize(lhs, rhs) == Len(lhs) = 0 \/ Len(lhs) = Len(rhs)

add(lhs, rhs) ==
    IF Len(lhs) = 0 THEN rhs
    ELSE IF Len(lhs) = Len(rhs) THEN VecAdd(lhs, rhs)
    ELSE lhs

entry(entries, symbol) ==
    IF symbol \in DOMAIN entries THEN entries
    ELSE entries @@ (symbol :> [id |-> Cardinality(DOMAIN entries),
                                callers |-> EmptyEdges, callees |-> EmptyEdges])

edge(edges, symbol, n) == IF symbol \in DOMAIN edges THEN edges[symbol] ELSE Zero(n)
SetEdge(edges, symbol, cost) ==
    IF symbol \in DOMAIN edges THEN [edges EXCEPT ![symbol] = cost]
    ELSE edges @@ (symbol :> cost)

(* variant: the caller edge is filed under the current symbol              *)
addEdges_CallerKey(entries, symbol, lastSymbol, diff) ==
    LET callee == edge(entries[lastSymbol].callees, symbol, numTypes)
        caller == edge(entries[symbol].callers, symbol, numTypes)
        e1 == [entries EXCEPT ![lastSymbol].callees = SetEdge(@, symbol, add(callee, diff))]
    IN [entries |-> [e1 EXCEPT ![symbol].callers = SetEdge(@, symbol, add(caller, diff))],
        ok |-> sameSize(callee, diff) /\ sameSize(caller, diff)]

(* variant: a new callee edge is created with one cost type too many       *)
addEdges_WrongTypes(entries, symbol, lastSymbol, diff) ==
    LET callee == edge(entries[lastSymbol].callees, symbol, numTypes + 1)
        caller == edge(entries[symbol].callers, lastSymbol, numTypes)
        e1 == [entries EXCEPT ![lastSymbol].callees = SetEdge(@, symbol, add(callee, diff))]
    IN [entries |-> [e1 EXCEPT ![symbol].callers = SetEdge(@, lastSymbol, add(caller, diff))],
        ok |-> sameSize(callee, diff) /\ sameSize(caller, diff)]

(* the two add() calls of one edge; ok says that both assertions held      *)
addEdges(entries, symbol, lastSymbol, diff) ==
    LET callee == edge(entries[lastSymbol].callees, symbol, numTypes)
        caller == edge(entries[symbol].callers, lastSymbol, numTypes)
        e1 == [entries EXCEPT ![lastSymbol].callees = SetEdge(@, symbol, add(callee, diff))]
    IN [entries |-> [e1 EXCEPT ![symbol].callers = SetEdge(@, lastSymbol, add(caller, diff))],
        ok |-> sameSize(callee, diff) /\ sameSize(caller, diff)]

(* variant: the inclusive cost is credited at every occurrence of a symbol *)
RECURSIVE CallerCalleeWalk_NoGuard(_, _, _, _, _, _)
CallerCalleeWalk_NoGuard(st, node, diff, recursionGuard, callerCalleeRecursionGuard, last) ==
    IF node = 0 THEN st
    ELSE
    LET symbol == buSymbol[node]
        entries1 == entry(st.entries, symbol)
        id == entries1[symbol].id
        incl == CostsAdd(st.incl, id, diff)
        self == IF buParent[node] = 0 THEN CostsAdd(st.self, id, diff) ELSE st.self
        callerCalleePair == <<symbol, last[1]>>
        newEdge == last # <<>> /\ callerCalleePair \notin callerCalleeRecursionGuard
        edges == addEdges(entries1, symbol, last[1], diff)
        entries2 == IF newEdge THEN edges.entries ELSE entries1
        ok == st.ok /\ (newEdge => edges.ok)
    IN CallerCalleeWalk_NoGuard([entries |-> entries2, incl |-> incl, self |-> self, ok |-> ok],
                        buParent[node], diff, recursionGuard,
                        IF newEdge THEN callerCalleeRecursionGuard \cup {callerCalleePair}
                        ELSE callerCalleeRecursionGuard,
                        <<symbol>>)

(* variant: the self cost is credited at every node of the chain           *)
RECURSIVE CallerCalleeWalk_SelfEveryNode(_, _, _, _, _, _)
CallerCalleeWalk_SelfEveryNode(st, node, diff, recursionGuard, callerCalleeRecursionGuard, last) ==
    IF node = 0 THEN st
    ELSE
    LET symbol == buSymbol[node]
        entries1 == entry(st.entries, symbol)
        id == entries1[symbol].id
        incl == IF symbol \notin recursionGuard
                THEN CostsAdd(st.incl, id, diff) ELSE st.incl
        self == CostsAdd(st.self, id, diff)
        callerCalleePair == <<symbol, last[1]>>
        newEdge == last # <<>> /\ callerCalleePair \notin callerCalleeRecursionGuard
        edges == addEdges(entries1, symbol, last[1], diff)
        entries2 == IF newEdge THEN edges.entries ELSE entries1
        ok == st.ok /\ (newEdge => edges.ok)
    IN CallerCalleeWalk_SelfEveryNode([entries |-> entries2, incl |-> incl, self |-> self, ok |-> ok],
                        buParent[node], diff,
                        recursionGuard \cup {symbol},
                        IF newEdge THEN callerCalleeRecursionGuard \cup {callerCalleePair}
                        ELSE callerCalleeRecursionGuard,
                        <<symbol>>)

(* variant: the entries of a walk are numbered from the start of the walk  *)
RECURSIVE CallerCalleeWalk_IdPerWalk(_, _, _, _, _, _)
CallerCalleeWalk_IdPerWalk(st, node, diff, recursionGuard, callerCalleeRecursionGuard, last) ==
    IF node = 0 THEN st
    ELSE
    LET symbol == buSymbol[node]
        entries0 == entry(st.entries, symbol)
        entries1 == IF symbol \in DOMAIN st.entries THEN entries0
                    ELSE [entries0 EXCEPT ![symbol].id = Cardinality(recursionGuard)]
        id == entries1[symbol].id
        incl == IF symbol \notin recursionGuard
                THEN CostsAdd(st.incl, id, diff) ELSE st.incl
        self == IF buParent[node] = 0 THEN CostsAdd(st.self, id, diff) ELSE st.self
        callerCalleePair == <<symbol, last[1]>>
        newEdge == last # <<>> /\ callerCalleePair \notin callerCalleeRecursionGuard
        edges == addEdges(entries1, symbol, last[1], diff)
        entries2 == IF newEdge THEN edges.entries ELSE entries1
        ok == st.ok /\ (newEdge => edges.ok)
    IN CallerCalleeWalk_IdPerWalk([entries |-> entries2, incl |-> incl, self |-> self,
                                   ok |-> ok],
                        buParent[node], diff,
                        recursionGuard \cup {symbol},
                        IF newEdge THEN callerCalleeRecursionGuard \cup {callerCalleePair}
                        ELSE callerCalleeRecursionGuard,
                        <<symbol>>)

(* variant: an adjacency is credited every time it comes                  *)
RECURSIVE CallerCalleeWalk_NoPairGuard(_, _, _, _, _, _)
CallerCalleeWalk_NoPairGuard(st, node, diff, recursionGuard, callerCalleeRecursionGuard, last) ==
    IF node = 0 THEN st
    ELSE
    LET symbol == buSymbol[node]
        entries1 == entry(st.entries, symbol)
        id == entries1[symbol].id
        incl == IF symbol \notin recursionGuard
                THEN CostsAdd(st.incl, id, diff) ELSE st.incl
        self == IF buParent[node] = 0 THEN CostsAdd(st.self, id, diff) ELSE st.self
        callerCalleePair == <<symbol, last[1]>>
        newEdge == last # <<>>
        edges == addEdges(entries1, symbol, last[1], diff)
        entries2 == IF newEdge THEN edges.entries ELSE entries1
        ok == st.ok /\ (newEdge => edges.ok)
    IN CallerCalleeWalk_NoPairGuard([entries |-> entries2, incl |-> incl, self |-> self, ok |-> ok],
                        buParent[node], diff,
                        recursionGuard \cup {symbol},
                        IF newEdge THEN callerCalleeRecursionGuard \cup {callerCalleePair}
                        ELSE callerCalleeRecursionGuard,
                        <<symbol>>)

(* variant: the pair guard is keyed by the set of the two symbols         *)
RECURSIVE CallerCalleeWalk_UnorderedPair(_, _, _, _, _, _)
CallerCalleeWalk_UnorderedPair(st, node, diff, recursionGuard, callerCalleeRecursionGuard, last) ==
    IF node = 0 THEN st
    ELSE
    LET symbol == buSymbol[node]
        entries1 == entry(st.entries, symbol)
        id == entries1[symbol].id
        incl == IF symbol \notin recursionGuard
                THEN CostsAdd(st.incl, id, diff) ELSE st.incl
        self == IF buParent[node] = 0 THEN CostsAdd(st.self, id, diff) ELSE st.self
        callerCalleePair == {symbol, last[1]}
        newEdge == last # <<>> /\ callerCalleePair \notin callerCalleeRecursionGuard
        edges == addEdges(entries1, symbol, last[1], diff)
        entries2 == IF newEdge THEN edges.entries ELSE entries1
        ok == st.ok /\ (newEdge => edges.ok)
    IN CallerCalleeWalk_UnorderedPair([entries |-> entries2, incl |-> incl, self |-> self, ok |-> ok],
                        buParent[node], diff,
                        recursionGuard \cup {symbol},
                        IF newEdge THEN callerCalleeRecursionGuard \cup {callerCalleePair}
                        ELSE callerCalleeRecursionGuard,
                        <<symbol>>)

RECURSIVE CallerCalleeWalk(_, _, _, _, _, _)
CallerCalleeWalk(st, node, diff, recursionGuard, callerCalleeRecursionGuard, last) ==
    IF node = 0 THEN st
    ELSE
    LET symbol == buSymbol[node]
        entries1 == entry(st.entries, symbol)
        id == entries1[symbol].id
        incl == IF symbol \notin recursionGuard
                THEN CostsAdd(st.incl, id, diff) ELSE st.incl
        self == IF buParent[node] = 0 THEN CostsAdd(st.self, id, diff) ELSE st.self
        callerCalleePair == <<symbol, last[1]>>
        newEdge == last # <<>> /\ callerCalleePair \notin callerCalleeRecursionGuard
        edges == addEdges(entries1, symbol, last[1], diff)
        entries2 == IF newEdge THEN edges.entries ELSE entries1
        ok == st.ok /\ (newEdge => edges.ok)
    IN CallerCalleeWalk([entries |-> entries2, incl |-> incl, self |-> self, ok |-> ok],
                        buParent[node], diff,
                        recursionGuard \cup {symbol},
                        IF newEdge THEN callerCalleeRecursionGuard \cup {callerCalleePair}
                        ELSE callerCalleeRecursionGuard,
                        <<symbol>>)

buildCallerCalleeRow(st, row) ==
    IF IsLeafRow(row) THEN CallerCalleeWalk(st, row, Diff(row), {}, {}, <<>>) ELSE st

CcPlan == PostOrder(0)

(* Costs::initializeCostsFrom takes over the cost types of the bottom-up   *)
(* costs; the per-item values of the receiver are not touched              *)
initializeCostsFrom(costs) == costs

(* the results object is the caller's: the first call finds it empty, a    *)
(* later call finds the entries of the build before                        *)
CallerCalleesFromBottomUpData ==
    /\ \/ pc = "init"
       \/ pc = "ccDone" /\ ccBuilds < MaxBuilds
    /\ pc' = "cc"
    /\ ccPos' = 1
    /\ ccBuilds' = ccBuilds + 1
    /\ ccIncl' = initializeCostsFrom(ccIncl)
    /\ ccSelf' = initializeCostsFrom(ccSelf)
    /\ UNCHANGED <<hostVars, recordVars, pageVars, prettifyVars, inputVars, tdVars, plVars, ccEntries>>

CallerCalleeRow ==
    /\ pc = "cc"
    /\ ccPos <= Len(CcPlan)
    /\ LET st == buildCallerCalleeRow([entries |-> ccEntries, incl |-> ccIncl,
                                       self |-> ccSelf, ok |-> TRUE], CcPlan[ccPos])
       IN /\ ccEntries' = st.entries
          /\ ccIncl' = st.incl
          /\ ccSelf' = st.self
          /\ pc' = IF st.ok THEN pc ELSE "aborted"
    /\ ccPos' = ccPos + 1
    /\ UNCHANGED <<hostVars, recordVars, pageVars, prettifyVars, inputVars, tdVars, plVars, ccBuilds>>

(* variant: the loop over the rows looks for one row more than there is    *)
FinishCallerCallee_OneMore ==
    /\ pc = "cc"
    /\ ccPos > Len(CcPlan) + 1
    /\ pc' = "ccDone"
    /\ UNCHANGED <<hostVars, recordVars, pageVars, prettifyVars, inputVars, tdVars, plVars, ccVars>>

FinishCallerCallee ==
    /\ pc = "cc"
    /\ ccPos > Len(CcPlan)
    /\ pc' = "ccDone"
    /\ UNCHANGED <<hostVars, recordVars, pageVars, prettifyVars, inputVars, tdVars, plVars, ccVars>>

(* ======================== properties of the builds ===================== *)
RECURSIVE SumVecs(_, _)
SumVecs(f, S) ==
    IF S = {} THEN Zero(numTypes)
    ELSE LET x == CHOOSE y \in S : TRUE IN VecAdd(f[x], SumVecs(f, S \ {x}))

Nodes == 1..NumNodes
FirstLevel == {i \in Nodes : buParent[i] = 0}
BelowFirstLevel == Nodes \ FirstLevel
SecondLevel == {i \in BelowFirstLevel : buParent[i] \in FirstLevel}

DiffOf == [i \in Nodes |-> Diff(i)]
TotalCost == SumVecs(buCost, FirstLevel)
LeafContributions(S) == SumVecs(DiffOf, S)

(* every node's cost is at least the sum of its children's costs *)
CostsMonotone == \A i \in Nodes : \A t \in 1..numTypes : Diff(i)[t] >= 0
FirstLevelDistinct ==
    \A i, j \in FirstLevel : buSymbol[i] = buSymbol[j] => i = j

TdIds == 1..Len(tdNodes)
TdSelfOf == [k \in TdIds |-> ItemCostOf(tdSelf, tdNodes[k].id, numTypes)]
TdInclOf == [k \in TdIds |-> ItemCostOf(tdIncl, tdNodes[k].id, numTypes)]
TdSelfTotal == SumVecs(TdSelfOf, TdIds)
TdTopInclusive == SumVecs(TdInclOf, TdChildren(tdNodes, 0))
TopDownBuilt == pc \in {"tdDone", "plDone"}
Geq(a, b) == \A t \in DOMAIN a : a[t] >= b[t]

(* C1 as stated: on every input and in both modes the self costs of the    *)
(* top-down tree sum to the sum of all leaf contributions and to the grand *)
(* total (here only on inputs with monotone costs).                        *)
C1_ConservationAnyMode ==
    (TopDownBuilt /\ CostsMonotone) =>
        /\ TdSelfTotal = LeafContributions(Nodes)
        /\ TdSelfTotal = TotalCost

(* C1 (amended): with costs monotone along the tree, the self costs of the *)
(* top-down tree sum to the leaf contributions of the walked nodes: all    *)
(* nodes and the grand total without skipFirstLevel, the nodes below the   *)
(* first level and the summed cost of the second level with it.            *)
C1_Conservation ==
    (TopDownBuilt /\ CostsMonotone) =>
        IF skipFirstLevel
        THEN /\ TdSelfTotal = LeafContributions(BelowFirstLevel)
             /\ TdSelfTotal = SumVecs(buCost, SecondLevel)
        ELSE /\ TdSelfTotal = LeafContributions(Nodes)
             /\ TdSelfTotal = TotalCost

C1_Witness ==
    /\ TopDownBuilt /\ CostsMonotone /\ skipFirstLevel
    /\ \E i \in FirstLevel : VecSum(Diff(i)) > 0
    /\ VecSum(TdSelfTotal) > 0
    /\ Len(tdNodes) >= 3

(* C2 as stated: the inclusive costs of the root's children sum to the     *)
(* total recorded cost in both modes (here only on inputs with monotone    *)
(* costs and distinct first-level symbols).                                *)
C2_TopInclusiveAnyMode ==
    (TopDownBuilt /\ CostsMonotone /\ FirstLevelDistinct) =>
        TdTopInclusive = TotalCost

(* C2 (amended): with monotone costs the inclusive costs of the root's     *)
(* children sum to the total recorded cost without skipFirstLevel; with    *)
(* skipFirstLevel and distinct first-level symbols they sum to the cost of *)
(* the second-level nodes.                                                 *)
C2_TopInclusive ==
    (TopDownBuilt /\ CostsMonotone) =>
        IF skipFirstLevel
        THEN FirstLevelDistinct => TdTopInclusive = SumVecs(buCost, SecondLevel)
        ELSE TdTopInclusive = TotalCost

C2_Witness ==
    /\ TopDownBuilt /\ CostsMonotone /\ skipFirstLevel /\ FirstLevelDistinct
    /\ Cardinality(FirstLevel) = 2
    /\ VecSum(TdTopInclusive) > 0
    /\ TdTopInclusive # TotalCost

CcSymbols == DOMAIN ccEntries
CcInclOf(s) == ItemCostOf(ccIncl, ccEntries[s].id, numTypes)
CcSelfOf(s) == ItemCostOf(ccSelf, ccEntries[s].id, numTypes)

(* C3: with monotone costs, after a build every top-down node and every    *)
(* caller-callee entry has inclusive cost >= self cost in every category.  *)
C3_InclusiveGeqSelf ==
    CostsMonotone =>
        /\ TopDownBuilt => \A k \in TdIds : Geq(TdInclOf[k], TdSelfOf[k])
        /\ pc = "ccDone" => \A s \in CcSymbols : Geq(CcInclOf(s), CcSelfOf(s))

C3_Witness ==
    /\ CostsMonotone /\ TopDownBuilt /\ ~skipFirstLevel
    /\ \E k, j \in TdIds :
         /\ VecSum(TdSelfOf[k]) > 0 /\ TdInclOf[k] # TdSelfOf[k]
         /\ VecSum(TdSelfOf[j]) > 0 /\ TdInclOf[j] = TdSelfOf[j]

C3_WitnessCallerCallee ==
    /\ CostsMonotone /\ pc = "ccDone"
    /\ \E s \in CcSymbols : VecSum(CcSelfOf(s)) > 0 /\ CcInclOf(s) # CcSelfOf(s)

PlIds == 1..Len(plNodes)
PlCostOf == [k \in PlIds |-> ItemCostOf(plCosts, plNodes[k].id, numTypes)]

(* C4: the costs of the library entries sum to the sum of the self costs   *)
(* of the top-down tree they were built from.                              *)
C4_PerLibraryTotal ==
    pc = "plDone" => SumVecs(PlCostOf, PlIds) = TdSelfTotal

C4_Witness ==
    /\ pc = "plDone"
    /\ Len(plNodes) = 2
    /\ Len(tdNodes) = 3
    /\ \A k \in PlIds : VecSum(PlCostOf[k]) > 0

(* C5: A is a callee of B with cost C iff B is a caller of A with cost C.  *)
C5_EdgeSymmetry ==
    pc = "ccDone" =>
        \A a, b \in SymbolSet :
            LET calleeOfB == b \in CcSymbols /\ a \in DOMAIN ccEntries[b].callees
                callerOfA == a \in CcSymbols /\ b \in DOMAIN ccEntries[a].callers
            IN /\ calleeOfB <=> callerOfA
               /\ calleeOfB => ccEntries[b].callees[a] = ccEntries[a].callers[b]

C5_Witness ==
    /\ pc = "ccDone"
    /\ \E a, b \in CcSymbols :
         /\ a # b
         /\ a \in DOMAIN ccEntries[b].callees
         /\ b \in DOMAIN ccEntries[a].callees
         /\ ccEntries[b].callees[a] # ccEntries[a].callees[b]

RECURSIVE Chain(_)
Chain(node) == IF node = 0 THEN <<>> ELSE <<buSymbol[node]>> \o Chain(buParent[node])
Occurrences(s, chain) == Cardinality({k \in 1..Len(chain) : chain[k] = s})
InclusiveBefore(s) == IF s \in CcSymbols THEN CcInclOf(s) ELSE Zero(numTypes)

(* C6: a walk over a chain that holds a symbol several times adds diff to  *)
(* that symbol's inclusive cost exactly once.                              *)
C6_RecursionCountedOnce ==
    [][(pc = "cc" /\ ccPos' = ccPos + 1 /\ IsLeafRow(CcPlan[ccPos])) =>
         \A s \in SymbolSet :
             Occurrences(s, Chain(CcPlan[ccPos])) >= 2 =>
                 ItemCostOf(ccIncl', ccEntries'[s].id, numTypes)
                     = VecAdd(InclusiveBefore(s), Diff(CcPlan[ccPos]))]_vars

C6_Witness ==
    /\ pc = "cc" /\ ccPos > 1
    /\ IsLeafRow(CcPlan[ccPos - 1])
    /\ \E s \in SymbolSet :
         /\ Occurrences(s, Chain(CcPlan[ccPos - 1])) = 3
         /\ CcInclOf(s) = Diff(CcPlan[ccPos - 1])

IsScenario ==
    /\ numTypes = 1
    /\ buParent = <<0, 1, 2>>
    /\ buSymbol = <<SymMain, SymFoo, SymBar>>
    /\ buCost = <<<<10>>, <<10>>, <<10>>>>

(* C7 as stated: main -> foo -> bar with cost 10 each yields the top-down  *)
(* tree main -> foo -> bar with self cost 10 at bar.                       *)
C7_ScenarioMainFirst ==
    (IsScenario /\ pc = "tdDone" /\ ~skipFirstLevel) =>
        \E m, f, b \in TdIds :
            /\ TdIds = {m, f, b}
            /\ tdNodes[m].symbol = SymMain /\ tdNodes[m].parent = 0
            /\ tdNodes[f].symbol = SymFoo /\ tdNodes[f].parent = m
            /\ tdNodes[b].symbol = SymBar /\ tdNodes[b].parent = f
            /\ TdSelfOf[b] = <<10>> /\ TdSelfOf[m] = <<0>> /\ TdSelfOf[f] = <<0>>
            /\ \A k \in TdIds : TdInclOf[k] = <<10>>

(* C7 (amended): main -> foo -> bar with cost 10 each yields the top-down  *)
(* tree bar -> foo -> main (bar below the root), with self cost 10 at main *)
(* and 0 at bar and foo, and inclusive cost 10 at each.                    *)
C7_Scenario ==
    (IsScenario /\ pc = "tdDone" /\ ~skipFirstLevel) =>
        \E m, f, b \in TdIds :
            /\ TdIds = {m, f, b}
            /\ tdNodes[b].symbol = SymBar /\ tdNodes[b].parent = 0
            /\ tdNodes[f].symbol = SymFoo /\ tdNodes[f].parent = b
            /\ tdNodes[m].symbol = SymMain /\ tdNodes[m].parent = f
            /\ TdSelfOf[m] = <<10>> /\ TdSelfOf[b] = <<0>> /\ TdSelfOf[f] = <<0>>
            /\ \A k \in TdIds : TdInclOf[k] = <<10>>

C7_Witness == IsScenario /\ pc = "tdDone" /\ ~skipFirstLevel /\ Len(tdNodes) = 3

(* C8: a root without children gives a top-down root without children and *)
(* empty cost matrices in both modes and an empty entry table; each build  *)
(* runs straight to its end.                                               *)
C8_EmptyTree ==
    NumNodes = 0 =>
        /\ pc = "td" => ENABLED FinishTopDown
        /\ pc = "cc" => ENABLED FinishCallerCallee
        /\ pc \in {"td", "tdDone"} =>
               tdNodes = <<>> /\ DOMAIN tdIncl = {} /\ DOMAIN tdSelf = {}
        /\ pc \in {"cc", "ccDone"} =>
               CcSymbols = {} /\ DOMAIN ccIncl = {} /\ DOMAIN ccSelf = {}

C8_Witness == NumNodes = 0 /\ pc = "tdDone" /\ skipFirstLevel

C8_WitnessCallerCallee == NumNodes = 0 /\ pc = "ccDone"

(* ---------------------------- prettifySymbol --------------------------- *)
(* A string is a sequence of characters; offsets are counted from 0 as in  *)
(* the code.                                                               *)
At(str, i) == str[i + 1]
Clamp(pos, size) == IF pos < 0 THEN 0 ELSE IF pos > size THEN size ELSE pos
Mid(str, pos) == SubSeq(str, Clamp(pos, Len(str)) + 1, Len(str))
MidN(str, pos, n) ==
    LET p == Clamp(pos, Len(str))
        last == IF n < 0 \/ p + n > Len(str) THEN Len(str) ELSE p + n
    IN SubSeq(str, p + 1, last)
Left(str, n) == SubSeq(str, 1, Clamp(n, Len(str)))
StartsWith(str, prefix) ==
    Len(prefix) <= Len(str) /\ SubSeq(str, 1, Len(prefix)) = prefix

RECURSIVE indexOf(_, _, _)
indexOf(str, pattern, from) ==
    IF from + Len(pattern) > Len(str) THEN -1
    ELSE IF SubSeq(str, from + 1, from + Len(pattern)) = pattern THEN from
    ELSE indexOf(str, pattern, from + 1)

RECURSIVE findSameDepthFrom(_, _, _, _, _)
findSameDepthFrom(str, offset, ch, returnNext, depth) ==
    IF offset >= Len(str) THEN -1
    ELSE LET current == At(str, offset)
             d == IF current \in {"<", "("} THEN depth + 1
                  ELSE IF current \in {">", ")"} THEN depth - 1
                  ELSE depth
         IN IF d = 0 /\ current = ch
            THEN offset + (IF returnNext THEN 1 ELSE 0)
            ELSE findSameDepthFrom(str, offset + 1, ch, returnNext, d)
(* variant: the nesting depth is not tracked, the first ch is taken        *)
RECURSIVE findSameDepth_NoDepth(_, _, _, _)
findSameDepth_NoDepth(str, offset, ch, returnNext) ==
    IF offset >= Len(str) THEN -1
    ELSE IF At(str, offset) = ch THEN offset + (IF returnNext THEN 1 ELSE 0)
    ELSE findSameDepth_NoDepth(str, offset + 1, ch, returnNext)

findSameDepth(str, offset, ch, returnNext) ==
    findSameDepthFrom(str, offset, ch, returnNext, 0)

RECURSIVE startsWith(_, _)
startsWith(str, prefixes) ==
    IF prefixes = <<>> THEN -1
    ELSE IF StartsWith(str, Head(prefixes)) THEN Len(Head(prefixes))
    ELSE startsWith(str, Tail(prefixes))

StrStd == <<"s", "t", "d", ":", ":">>
StrCxx11 == <<"_", "_", "c", "x", "x", "1", "1", ":", ":">>
StrV1 == <<"_", "_", "1", ":", ":">>
StrBasicString == <<"b", "a", "s", "i", "c", "_", "s", "t", "r", "i", "n", "g", "<">>
StrChar == <<"c", "h", "a", "r">>
StrWChar == <<"w", "c", "h", "a", "r", "_", "t">>
StrString == <<"s", "t", "r", "i", "n", "g">>
StrWString == <<"w", "s", "t", "r", "i", "n", "g">>
StrCtor == <<":", ":", "b", "a", "s", "i", "c", "_", "s", "t", "r", "i", "n", "g", "(">>
StrDtor == <<":", ":", "~", "b", "a", "s", "i", "c", "_", "s", "t", "r", "i", "n", "g", "(">>
StrColons == <<":", ":">>
StrBasic == <<"b", "a", "s", "i", "c", "_">>
StrStringParen == <<"s", "t", "r", "i", "n", "g", "(">>
StrAllocator == <<"a", "l", "l", "o", "c", "a", "t", "o", "r", "<">>
StrDots == <<".", ".", ".", ">">>
oneParameterTemplates ==
    <<<<"v", "e", "c", "t", "o", "r", "<">>, <<"s", "e", "t", "<">>, <<"d", "e", "q", "u", "e", "<">>, <<"l", "i", "s", "t", "<">>, <<"f", "o", "r", "w", "a", "r", "d", "_", "l", "i", "s", "t", "<">>, <<"m", "u", "l", "t", "i", "s", "e", "t", "<">>,
      <<"u", "n", "o", "r", "d", "e", "r", "e", "d", "_", "s", "e", "t", "<">>, <<"u", "n", "o", "r", "d", "e", "r", "e", "d", "_", "m", "u", "l", "t", "i", "s", "e", "t", "<">>>>
twoParametersTemplates ==
    <<<<"m", "a", "p", "<">>, <<"m", "u", "l", "t", "i", "m", "a", "p", "<">>, <<"u", "n", "o", "r", "d", "e", "r", "e", "d", "_", "m", "a", "p", "<">>, <<"u", "n", "o", "r", "d", "e", "r", "e", "d", "_", "m", "u", "l", "t", "i", "m", "a", "p", "<">>>>

RECURSIVE findStd(_, _)
findStd(str, from) ==
    LET found == indexOf(str, StrStd, from)
        pos == found + 5
    IN IF found = -1 THEN -1
       ELSE IF pos = 5 \/ At(str, pos - 6) \in {"<", " ", "("} THEN pos
       ELSE findStd(str, pos)

afterClosing(symbol) == Mid(symbol, findSameDepth(symbol, 0, ">", TRUE))

RECURSIVE prettifySymbol(_)

prettifyBasicString(result, symbol, end) ==
    LET comma == findSameDepth(symbol, end, ",", FALSE)
        type == MidN(symbol, end, comma - end)
        result1 == IF type = StrChar THEN result \o StrString
                   ELSE IF type = StrWChar THEN result \o StrWString
                   ELSE result \o Left(symbol, end) \o type \o <<">">>
        symbol1 == afterClosing(symbol)
        end2 == startsWith(symbol1, <<StrCtor, StrDtor>>)
        result2 == result1 \o StrColons
                   \o (IF At(symbol1, 2) = "~" THEN <<"~">> ELSE <<>>)
                   \o (IF type = StrWChar THEN <<"w">>
                       ELSE IF type # StrChar THEN StrBasic ELSE <<>>)
                   \o StrStringParen
    IN IF comma = -1 THEN [result |-> result, symbol |-> symbol]
       ELSE IF end2 # -1 THEN [result |-> result2, symbol |-> Mid(symbol1, end2)]
       ELSE [result |-> result1, symbol |-> symbol1]

prettifyOneParameter(result, symbol, end) ==
    LET comma == findSameDepth(symbol, end, ",", FALSE)
    IN IF comma = -1 THEN [result |-> result, symbol |-> symbol]
       ELSE [result |-> result \o Left(symbol, end)
                        \o prettifySymbol(MidN(symbol, end, comma - end)) \o <<">">>,
             symbol |-> afterClosing(symbol)]

prettifyTwoParameters(result, symbol, end) ==
    LET comma1 == findSameDepth(symbol, end, ",", FALSE)
        comma2 == findSameDepth(symbol, comma1 + 1, ",", FALSE)
    IN IF comma1 = -1 \/ comma2 = -1 THEN [result |-> result, symbol |-> symbol]
       ELSE [result |-> result \o Left(symbol, end)
                        \o prettifySymbol(MidN(symbol, end, comma1 - end))
                        \o prettifySymbol(MidN(symbol, comma1, comma2 - comma1))
                        \o <<">">>,
             symbol |-> afterClosing(symbol)]

prettifyAllocator(result, symbol, end) ==
    LET gt == findSameDepth(symbol, 0, ">", TRUE)
    IN IF gt = -1 THEN [result |-> result, symbol |-> symbol]
       ELSE [result |-> result \o Left(symbol, end) \o StrDots, symbol |-> Mid(symbol, gt)]

prettifyTemplate(result, symbol) ==
    LET basic == startsWith(symbol, <<StrBasicString>>)
        one == startsWith(symbol, oneParameterTemplates)
        two == startsWith(symbol, twoParametersTemplates)
        alloc == startsWith(symbol, <<StrAllocator>>)
    IN IF basic # -1 THEN prettifyBasicString(result, symbol, basic)
       ELSE IF one # -1 THEN prettifyOneParameter(result, symbol, one)
       ELSE IF two # -1 THEN prettifyTwoParameters(result, symbol, two)
       ELSE IF alloc # -1 THEN prettifyAllocator(result, symbol, alloc)
       ELSE [result |-> result, symbol |-> symbol]

prettifySymbol(str) ==
    LET pos == findStd(str, 0)
        symbol0 == Mid(str, pos)
        strip == startsWith(symbol0, <<StrCxx11, StrV1>>)
        r == prettifyTemplate(Left(str, pos),
                              IF strip # -1 THEN Mid(symbol0, strip) ELSE symbol0)
    IN IF pos = -1 THEN str
       ELSE IF r.symbol # <<>> THEN r.result \o prettifySymbol(r.symbol)
       ELSE r.result

DataPrettifySymbol(str) ==
    LET result == prettifySymbol(str) IN IF result = str THEN str ELSE result

(* The names the prettifier is run on: every concatenation of at most      *)
(* MaxTokens tokens, and some symbol names as a demangler prints them.     *)
Tokens ==
    {<<"s", "t", "d", ":", ":">>, <<"v", "e", "c", "t", "o", "r", "<">>, <<"m", "a", "p", "<">>, <<"b", "a", "s", "i", "c", "_", "s", "t", "r", "i", "n", "g", "<">>, <<"a", "l", "l", "o", "c", "a", "t", "o", "r", "<">>, <<"_", "_", "c", "x", "x", "1", "1", ":", ":">>,
     <<"c", "h", "a", "r">>, <<",">>, <<">">>, <<"(">>, <<" ">>}

RECURSIVE TokenStrings(_)
TokenStrings(n) ==
    IF n = 0 THEN {<<>>}
    ELSE LET shorter == TokenStrings(n - 1)
         IN shorter \cup {s \o t : s \in shorter, t \in Tokens}

VectorOfInt == <<"s", "t", "d", ":", ":", "v", "e", "c", "t", "o", "r", "<", "i", "n", "t", ",", " ", "s", "t", "d", ":", ":", "a", "l", "l", "o", "c", "a", "t", "o", "r", "<", "i", "n", "t", ">", ">">>
VectorOfIntPretty == <<"s", "t", "d", ":", ":", "v", "e", "c", "t", "o", "r", "<", "i", "n", "t", ">">>
Cxx11String ==
    <<"s", "t", "d", ":", ":", "_", "_", "c", "x", "x", "1", "1", ":", ":", "b", "a", "s", "i", "c", "_", "s", "t", "r", "i", "n", "g", "<", "c", "h", "a", "r", ",", " ", "s", "t", "d", ":", ":", "c", "h", "a", "r", "_", "t", "r", "a", "i", "t", "s", "<", "c", "h", "a", "r", ">", ",", " ", "s", "t", "d", ":", ":", "a", "l", "l", "o", "c", "a", "t", "o", "r", "<", "c", "h", "a", "r", ">", ">">>
StdString == <<"s", "t", "d", ":", ":", "s", "t", "r", "i", "n", "g">>
VectorMethod == <<"s", "t", "d", ":", ":", "v", "e", "c", "t", "o", "r", "<", "i", "n", "t", ",", " ", "s", "t", "d", ":", ":", "a", "l", "l", "o", "c", "a", "t", "o", "r", "<", "i", "n", "t", ">", " ", ">", ":", ":", "a", "s", "s", "i", "g", "n", "(", "i", "n", "t", ",", " ", "i", "n", "t", ")">>
MapOfString ==
    <<"s", "t", "d", ":", ":", "m", "a", "p", "<", "i", "n", "t", ",", " ", "s", "t", "d", ":", ":", "_", "_", "c", "x", "x", "1", "1", ":", ":", "b", "a", "s", "i", "c", "_", "s", "t", "r", "i", "n", "g", "<", "w", "c", "h", "a", "r", "_", "t", ",", " ", "s", "t", "d", ":", ":", "c", "h", "a", "r", "_", "t", "r", "a", "i", "t", "s", "<", "w", "c", "h", "a", "r", "_", "t", ">", " ", ">", ",", " ", "s", "t", "d", ":", ":", "l", "e", "s", "s", "<", "i", "n", "t", ">", " ", ">">>
StringDtor ==
    <<"s", "t", "d", ":", ":", "_", "_", "c", "x", "x", "1", "1", ":", ":", "b", "a", "s", "i", "c", "_", "s", "t", "r", "i", "n", "g", "<", "c", "h", "a", "r", ",", " ", "s", "t", "d", ":", ":", "c", "h", "a", "r", "_", "t", "r", "a", "i", "t", "s", "<", "c", "h", "a", "r", ">", ",", " ", "s", "t", "d", ":", ":", "a", "l", "l", "o", "c", "a", "t", "o", "r", "<", "c", "h", "a", "r", ">", " ", ">", ":", ":", "~", "b", "a", "s", "i", "c", "_", "s", "t", "r", "i", "n", "g", "(", ")">>
DemangledNames == {VectorOfInt, Cxx11String, VectorMethod, MapOfString, StringDtor}

Names == TokenStrings(MaxTokens) \cup DemangledNames

PrettifySymbol ==
    /\ pc = "prettify"
    /\ Len(prettified) < MaxCalls
    /\ prettified' = Append(prettified,
                            DataPrettifySymbol(IF prettified = <<>> THEN name
                                               ELSE prettified[Len(prettified)]))
    /\ UNCHANGED <<hostVars, recordVars, pageVars, name, inputVars, pc, tdVars, plVars, ccVars>>

(* ===================== properties of the prettifier ==================== *)
(* C9: prettifying a prettified name changes nothing (stated for the names *)
(* a demangler prints, which are among "any input string").                *)
C9_PrettifyIdempotent ==
    (name \in DemangledNames /\ Len(prettified) >= 2) => prettified[2] = prettified[1]

(* C10: the two literal cases: the vector of int and the libstdc++ string. *)
C10_LiteralCases ==
    Len(prettified) >= 1 =>
        /\ name = VectorOfInt => prettified[1] = VectorOfIntPretty
        /\ name = Cxx11String => prettified[1] = StdString

C10_Witness ==
    /\ name = Cxx11String
    /\ Len(prettified) = 1
    /\ prettified[1] = StdString

(* ------------------- a second caller-callee build ---------------------- *)
RECURSIVE buildCallerCalleeRows(_, _)
buildCallerCalleeRows(st, rows) ==
    IF rows = <<>> THEN st
    ELSE buildCallerCalleeRows(buildCallerCalleeRow(st, Head(rows)), Tail(rows))

(* what one build leaves in a results object that was empty                *)
SingleBuild ==
    buildCallerCalleeRows([entries |-> EmptyEntries, incl |-> EmptyCosts,
                           self |-> EmptyCosts, ok |-> TRUE], CcPlan)

(* C11: when callerCalleesFromBottomUpData has run a second time on the    *)
(* same snapshot into a results object that holds a finished build, the    *)
(* entries with their edge costs, the inclusive costs and the self costs   *)
(* are those of a single build                                             *)
C11_RebuildIsSingleBuild ==
    (pc = "ccDone" /\ ccBuilds = 2) =>
        /\ ccEntries = SingleBuild.entries
        /\ ccIncl = SingleBuild.incl
        /\ ccSelf = SingleBuild.self

(* the edge costs alone: a second build adds every edge a second time      *)
C11_EdgesDoubled ==
    (pc = "ccDone" /\ ccBuilds = 2) =>
        \A a \in CcSymbols : \A b \in DOMAIN ccEntries[a].callees :
            ccEntries[a].callees[b] = VecAdd(SingleBuild.entries[a].callees[b],
                                             SingleBuild.entries[a].callees[b])

(* the first build does leave the single build                             *)
C11_FirstBuild ==
    (pc = "ccDone" /\ ccBuilds = 1) =>
        /\ ccEntries = SingleBuild.entries
        /\ ccIncl = SingleBuild.incl
        /\ ccSelf = SingleBuild.self

(* ----------------------------- termination ----------------------------- *)
(* C12: on a finite bottom-up tree whose parent references are acyclic     *)
(* every build ends: a top-down build that was started reaches its         *)
(* returned result, a caller-callee build that was started reaches its     *)
(* end, and the per-library build of any finished top-down result is       *)
(* defined and returns                                                     *)
C12_Termination ==
    /\ (pc = "td") ~> (pc = "tdDone")
    /\ (pc = "cc") ~> (pc = "ccDone")
    /\ [](pc = "tdDone" => ENABLED FromTopDown)

(* the builds have ended on a chain of two nodes that are both leaf        *)
(* contributions: each walk has climbed the parent chain                   *)
C12_Witness ==
    /\ NumNodes = 2
    /\ buParent[2] = 1
    /\ \A i \in Nodes : IsLeafRow(i)
    /\ CostsMonotone
    /\ \/ pc = "plDone" /\ Len(plNodes) > 0
       \/ pc = "ccDone" /\ ccBuilds = 1

(* ----------------------- the assertion of add() ------------------------ *)
CcEdgeCosts ==
    UNION {{ccEntries[a].callees[b] : b \in DOMAIN ccEntries[a].callees}
           \cup {ccEntries[a].callers[b] : b \in DOMAIN ccEntries[a].callers}
           : a \in CcSymbols}

(* C13: in the caller-callee build of a snapshot whose cost vectors all    *)
(* have numTypes entries, every add() onto an edge accumulator of nonzero  *)
(* length finds the delta of the same length: no build is aborted by the   *)
(* assertion and every edge cost has numTypes entries; an accumulator of   *)
(* length zero takes the delta as its value                                *)
C13_AddAssertion ==
    /\ pc # "aborted"
    /\ \A cost \in CcEdgeCosts : Len(cost) = numTypes
    /\ \A delta \in CostVectors(numTypes) :
           sameSize(<<>>, delta) /\ add(<<>>, delta) = delta

(* an edge of two cost types has taken the deltas of two walks             *)
C13_Witness ==
    /\ pc = "ccDone"
    /\ ccBuilds = 1
    /\ numTypes = 2
    /\ CostsMonotone
    /\ <<1, 1>> \in CcEdgeCosts
    /\ \A i \in Nodes : Diff(i) # <<1, 1>>

(* --------------------------- leaf detection ---------------------------- *)
NonZero(v) == \E t \in DOMAIN v : v[t] # 0

(* a step of the top-down build over a row, and whether the row was walked *)
TdRowStep == pc = "td" /\ tdPos' = tdPos + 1 /\ TdItem.kind = "row"
TdRowWalked == tdIncl' # tdIncl
(* a step of the caller-callee build over a row                            *)
CcRowStep == pc = "cc" /\ ccPos' = ccPos + 1
CcRowWalked == ccIncl' # ccIncl

(* C14 as stated: in both builds a row is walked as a leaf contribution    *)
(* exactly if its diff is nonzero in at least one category                 *)
C14_LeafIfAnyCategory ==
    [][/\ TdRowStep => (TdRowWalked <=> NonZero(Diff(TdItem.node)))
       /\ CcRowStep => (CcRowWalked <=> NonZero(Diff(CcPlan[ccPos])))]_vars

(* C14: in both builds a row is walked as a leaf contribution exactly if   *)
(* the sum of its diff over the categories is nonzero; when every node's   *)
(* cost is at least the sum of its children's in every category, that is   *)
(* exactly if the diff is nonzero in at least one category                 *)
C14_LeafIfSum ==
    [][/\ TdRowStep =>
            /\ TdRowWalked <=> VecSum(Diff(TdItem.node)) # 0
            /\ CostsMonotone => (TdRowWalked <=> NonZero(Diff(TdItem.node)))
       /\ CcRowStep =>
            /\ CcRowWalked <=> VecSum(Diff(CcPlan[ccPos])) # 0
            /\ CostsMonotone => (CcRowWalked <=> NonZero(Diff(CcPlan[ccPos])))]_vars

(* both builds have passed a row that is a leaf contribution in one of two *)
(* categories and a row that is none                                       *)
C14_Witness ==
    /\ numTypes = 2
    /\ CostsMonotone
    /\ \E i, j \in Nodes : Diff(i) = <<0, 1>> /\ ~NonZero(Diff(j))
    /\ \/ pc = "tdDone" /\ tdIncl # EmptyCosts
       \/ pc = "ccDone" /\ ccIncl # EmptyCosts

(* ------------------------ the inverted paths --------------------------- *)
(* the top-down nodes met from node p downwards along the symbols syms;    *)
(* 0 stands for a node that is missing                                     *)
RECURSIVE TdPath(_, _, _)
TdPath(nodes, p, syms) ==
    IF syms = <<>> THEN <<>>
    ELSE LET found == {k \in TdChildren(nodes, p) : nodes[k].symbol = Head(syms)}
         IN IF found = {} THEN <<0>>
            ELSE LET k == CHOOSE j \in found : TRUE
                 IN <<k>> \o TdPath(nodes, k, Tail(syms))

Range(seq) == {seq[k] : k \in 1..Len(seq)}

(* C15: when the top-down build without skipFirstLevel has processed the   *)
(* leaf contribution of a node a0 with the parent chain a0, a1, .., ak,    *)
(* the tree holds the path root -> symbol(a0) -> .. -> symbol(ak), diff    *)
(* has been added to the inclusive cost of every node of the path and to   *)
(* the self cost of its last node, and to no other cost                    *)
C15_InvertedPath ==
    [][(TdRowStep /\ ~skipFirstLevel /\ IsLeafRow(TdItem.node)) =>
          LET diff == Diff(TdItem.node)
              path == TdPath(tdNodes', 0, Chain(TdItem.node))
              inclBefore(k) == ItemCostOf(tdIncl, tdNodes'[k].id, numTypes)
              inclAfter(k) == ItemCostOf(tdIncl', tdNodes'[k].id, numTypes)
              selfBefore(k) == ItemCostOf(tdSelf, tdNodes'[k].id, numTypes)
              selfAfter(k) == ItemCostOf(tdSelf', tdNodes'[k].id, numTypes)
          IN /\ 0 \notin Range(path)
             /\ \A j \in 1..Len(path) :
                    /\ inclAfter(path[j]) = VecAdd(inclBefore(path[j]), diff)
                    /\ selfAfter(path[j]) = IF j = Len(path)
                                            THEN VecAdd(selfBefore(path[j]), diff)
                                            ELSE selfBefore(path[j])
             /\ \A k \in 1..Len(tdNodes') :
                    k \notin Range(path) =>
                        /\ inclAfter(k) = inclBefore(k)
                        /\ selfAfter(k) = selfBefore(k)]_vars

(* the build has just walked a chain of three nodes                        *)
C15_Witness ==
    /\ pc = "td"
    /\ ~skipFirstLevel
    /\ tdPos > 1
    /\ CostsMonotone
    /\ LET row == TopDownPlan(FALSE)[tdPos - 1].node
       IN /\ IsLeafRow(row)
          /\ Len(Chain(row)) = 3
          /\ Len(tdNodes) >= 3
          /\ tdSelf # EmptyCosts

(* ------------------------ siblings and sums ---------------------------- *)
(* C16: in a finished top-down tree, with or without skipFirstLevel, no    *)
(* two children of the same node carry the same symbol, the children of    *)
(* the root included                                                       *)
C16_SiblingsDistinct ==
    TopDownBuilt =>
        \A k, j \in TdIds :
            (tdNodes[k].parent = tdNodes[j].parent
             /\ tdNodes[k].symbol = tdNodes[j].symbol) => k = j

(* two first-level nodes of the same symbol, each with a child of another  *)
(* symbol that is a leaf contribution, have been built in either mode      *)
C16_Witness ==
    /\ pc = "tdDone"
    /\ \E i, j \in FirstLevel :
           /\ i # j
           /\ buSymbol[i] = buSymbol[j]
           /\ \E c \in Range(Children(i)) : IsLeafRow(c) /\ buSymbol[c] # buSymbol[i]
    /\ Len(tdNodes) >= 2

(* C17: in a top-down tree built without skipFirstLevel the inclusive cost *)
(* of every node is its self cost plus the inclusive costs of its          *)
(* children, in every category                                             *)
C17_InclusiveIsSelfPlusChildren ==
    (TopDownBuilt /\ ~skipFirstLevel) =>
        \A k \in TdIds :
            TdInclOf[k] = VecAdd(TdSelfOf[k], SumVecs(TdInclOf, TdChildren(tdNodes, k)))

(* a node with a self cost and a child that has a cost                     *)
C17_Witness ==
    /\ pc = "tdDone"
    /\ ~skipFirstLevel
    /\ CostsMonotone
    /\ \E k \in TdIds :
           /\ NonZero(TdSelfOf[k])
           /\ \E c \in TdChildren(tdNodes, k) : NonZero(TdInclOf[c])

(* --------------------------- skipFirstLevel ---------------------------- *)
RECURSIVE IsBelow(_, _)
IsBelow(i, g) == buParent[i] # 0 /\ (buParent[i] = g \/ IsBelow(buParent[i], g))
Subtree(g) == {i \in Nodes : IsBelow(i, g)}

(* the symbols from a node up to the second level                          *)
RECURSIVE SkipChain(_)
SkipChain(i) == IF buParent[i] = 0 THEN <<>> ELSE <<buSymbol[i]>> \o SkipChain(buParent[i])

(* the paths that the leaf contributions below g ask for                   *)
ExpectedPaths(g) ==
    UNION {{SubSeq(SkipChain(i), 1, m) : m \in 1..Len(SkipChain(i))}
           : i \in {r \in Subtree(g) : IsLeafRow(r)}}

RECURSIVE TdTop(_)
TdTop(k) == IF tdNodes[k].parent = 0 THEN k ELSE TdTop(tdNodes[k].parent)
RECURSIVE TdPathBelowTop(_)
TdPathBelowTop(k) ==
    IF tdNodes[k].parent = 0 THEN <<>>
    ELSE TdPathBelowTop(tdNodes[k].parent) \o <<tdNodes[k].symbol>>

TdTopLevel == TdChildren(tdNodes, 0)

SkipFirstLevelResult ==
    /\ {tdNodes[k].symbol : k \in TdTopLevel} = {buSymbol[g] : g \in FirstLevel}
    /\ \A k \in TdTopLevel :
         /\ TdInclOf[k] = SumVecs(TdInclOf, TdChildren(tdNodes, k))
         /\ \A g \in FirstLevel :
              buSymbol[g] = tdNodes[k].symbol =>
                /\ {TdPathBelowTop(j) : j \in {n \in TdIds : n # k /\ TdTop(n) = k}}
                       = ExpectedPaths(g)
                /\ TdInclOf[k] = LeafContributions({r \in Subtree(g) : IsLeafRow(r)})

TdDepthFirst == TdPreOrder(tdNodes, 0)
TdBinaryAt(k) == tdNodes[TdDepthFirst[k]].symbol.binary
PlBinary(k) == plNodes[k].symbol.symbol
(* the place in the depth-first order where a binary is met first          *)
FirstMet(b) ==
    CHOOSE k \in 1..Len(TdDepthFirst) :
        TdBinaryAt(k) = b /\ \A j \in 1..(k - 1) : TdBinaryAt(j) # b

(* C19: the per-library root has exactly one child for each binary of the  *)
(* top-down nodes, in the order in which the depth-first traversal meets   *)
(* the binaries first; a child has no children and its id is its position  *)
(* 0, 1, 2, ..                                                             *)
C19_PerLibraryStructure ==
    pc = "plDone" =>
        /\ {PlBinary(k) : k \in PlIds} = {tdNodes[j].symbol.binary : j \in TdIds}
        /\ \A k, j \in PlIds : PlBinary(k) = PlBinary(j) => k = j
        /\ \A k, j \in PlIds : k < j => FirstMet(PlBinary(k)) < FirstMet(PlBinary(j))
        /\ \A k \in PlIds : plNodes[k].id = k - 1 /\ plNodes[k].children = <<>>

(* the traversal has come back to the first binary after it met a second   *)
C19_Witness ==
    /\ pc = "plDone"
    /\ Len(plNodes) = 2
    /\ Len(tdNodes) = 3
    /\ TdBinaryAt(1) # TdBinaryAt(2)
    /\ TdBinaryAt(3) = TdBinaryAt(1)

(* C20: the cost of the library entry of a binary is the sum of the self   *)
(* costs of exactly the top-down nodes of that binary                      *)
C20_PerLibraryAttribution ==
    pc = "plDone" =>
        \A k \in PlIds :
            PlCostOf[k] = SumVecs(TdSelfOf,
                                  {j \in TdIds : tdNodes[j].symbol.binary = PlBinary(k)})

(* a library of two nodes with a self cost each, beside another library,   *)
(* in a tree where a node's inclusive cost is not its self cost            *)
C20_Witness ==
    /\ pc = "plDone"
    /\ Len(plNodes) = 2
    /\ CostsMonotone
    /\ \E k \in PlIds :
           Cardinality({j \in TdIds : /\ tdNodes[j].symbol.binary = PlBinary(k)
                                      /\ NonZero(TdSelfOf[j])}) = 2
    /\ \E j \in TdIds : TdInclOf[j] # TdSelfOf[j]

(* -------------------- the edges credited by a walk --------------------- *)
(* x is followed by y on the way up the chain: the walk is at y with       *)
(* lastSymbol = x                                                          *)
AdjacentAt(chain, k, x, y) == k + 1 <= Len(chain) /\ chain[k] = x /\ chain[k + 1] = y
Adjacent(chain, x, y) == \E k \in 1..(Len(chain) - 1) : AdjacentAt(chain, k, x, y)

CalleeCost(entries, x, y) ==
    IF x \in DOMAIN entries /\ y \in DOMAIN entries[x].callees
    THEN entries[x].callees[y] ELSE Zero(numTypes)
CallerCost(entries, y, x) ==
    IF y \in DOMAIN entries /\ x \in DOMAIN entries[y].callers
    THEN entries[y].callers[x] ELSE Zero(numTypes)

CcRow == CcPlan[ccPos]
CcLeafStep == CcRowStep /\ IsLeafRow(CcRow)

(* C21: one walk of the caller-callee build adds diff to X's callee edge   *)
(* to Y and to Y's caller edge from X once if Y follows X somewhere in the *)
(* chain, however often, and not at all otherwise                          *)
C21_AdjacencyOnce ==
    [][CcLeafStep =>
          \A x, y \in SymbolSet :
              LET added == IF Adjacent(Chain(CcRow), x, y)
                           THEN Diff(CcRow) ELSE Zero(numTypes)
              IN /\ CalleeCost(ccEntries', x, y) = VecAdd(CalleeCost(ccEntries, x, y), added)
                 /\ CallerCost(ccEntries', y, x) = VecAdd(CallerCost(ccEntries, y, x), added)]_vars

(* the first build has just walked a chain in which the same adjacency     *)
(* comes twice                                                             *)
C21_Witness ==
    /\ pc = "cc" /\ ccPos > 1 /\ ccBuilds = 1
    /\ LET row == CcPlan[ccPos - 1]
       IN /\ IsLeafRow(row)
          /\ \E x, y \in SymbolSet :
                 /\ AdjacentAt(Chain(row), 1, x, y)
                 /\ AdjacentAt(Chain(row), 2, x, y)
                 /\ CalleeCost(ccEntries, x, y) = Diff(row)

(* C22 as stated: the guard is keyed by the unordered pair, so when an     *)
(* adjacency (A, B) has been credited in a walk, a later adjacency (B, A)  *)
(* of the same walk adds no edge cost                                      *)
C22_UnorderedGuard ==
    [][CcLeafStep =>
          \A a, b \in SymbolSet :
              (a # b /\ Len(Chain(CcRow)) = 3
               /\ AdjacentAt(Chain(CcRow), 1, a, b) /\ AdjacentAt(Chain(CcRow), 2, b, a)) =>
                  /\ CalleeCost(ccEntries', b, a) = CalleeCost(ccEntries, b, a)
                  /\ CallerCost(ccEntries', a, b) = CallerCost(ccEntries, a, b)]_vars

(* C22: the guard is keyed by the ordered pair (current, previous): in a   *)
(* walk over A, B, A the adjacency (A, B) and the later adjacency (B, A)   *)
(* are different keys, and each credits its own pair of edges once         *)
C22_OrderedGuard ==
    [][CcLeafStep =>
          \A a, b \in SymbolSet :
              (a # b /\ Len(Chain(CcRow)) = 3
               /\ AdjacentAt(Chain(CcRow), 1, a, b) /\ AdjacentAt(Chain(CcRow), 2, b, a)) =>
                  /\ CalleeCost(ccEntries', a, b) = VecAdd(CalleeCost(ccEntries, a, b), Diff(CcRow))
                  /\ CallerCost(ccEntries', b, a) = VecAdd(CallerCost(ccEntries, b, a), Diff(CcRow))
                  /\ CalleeCost(ccEntries', b, a) = VecAdd(CalleeCost(ccEntries, b, a), Diff(CcRow))
                  /\ CallerCost(ccEntries', a, b) = VecAdd(CallerCost(ccEntries, a, b), Diff(CcRow))]_vars

(* the first build has just walked a chain A, B, A                         *)
C22_Witness ==
    /\ pc = "cc" /\ ccPos > 1 /\ ccBuilds = 1
    /\ LET row == CcPlan[ccPos - 1]
       IN /\ IsLeafRow(row)
          /\ \E a, b \in SymbolSet :
                 /\ a # b
                 /\ AdjacentAt(Chain(row), 1, a, b)
                 /\ AdjacentAt(Chain(row), 2, b, a)
                 /\ CalleeCost(ccEntries, a, b) = Diff(row)
                 /\ CalleeCost(ccEntries, b, a) = Diff(row)

(* -------------------- self costs and entries --------------------------- *)
RECURSIVE ChainEnd(_)
ChainEnd(node) == IF buParent[node] = 0 THEN node ELSE ChainEnd(buParent[node])

CcSelfBefore(s) == IF s \in CcSymbols THEN CcSelfOf(s) ELSE Zero(numTypes)
CcSelfAfter(s) ==
    IF s \in DOMAIN ccEntries'
    THEN ItemCostOf(ccSelf', ccEntries'[s].id, numTypes) ELSE Zero(numTypes)
CcSelfTotal == SumVecs([s \in CcSymbols |-> CcSelfOf(s)], CcSymbols)
CcLeafRows == {i \in Nodes : IsLeafRow(i)}

(* C23: a walk adds diff to the self cost of the entry of the symbol of    *)
(* the parentless node that ends it and to no other self cost, a walk over *)
(* a single parentless node changes no edge, and so after a build the self *)
(* costs of the entries sum to the sum of the leaf contributions           *)
C23_SelfCostConservation ==
    [][/\ CcLeafStep =>
            /\ \A s \in SymbolSet :
                   CcSelfAfter(s) = IF s = buSymbol[ChainEnd(CcRow)]
                                    THEN VecAdd(CcSelfBefore(s), Diff(CcRow))
                                    ELSE CcSelfBefore(s)
            /\ buParent[CcRow] = 0 =>
                   \A x, y \in SymbolSet :
                       /\ CalleeCost(ccEntries', x, y) = CalleeCost(ccEntries, x, y)
                       /\ CallerCost(ccEntries', x, y) = CallerCost(ccEntries, x, y)
       /\ pc' = "ccDone" =>
            SumVecs([s \in DOMAIN ccEntries' |->
                        ItemCostOf(ccSelf', ccEntries'[s].id, numTypes)], DOMAIN ccEntries')
                = LeafContributions(CcLeafRows)]_vars

(* what holds of the walks, and of the sum after a build into a results    *)
(* object that was empty                                                   *)
C23_FirstBuild ==
    [][/\ CcLeafStep =>
            /\ \A s \in SymbolSet :
                   CcSelfAfter(s) = IF s = buSymbol[ChainEnd(CcRow)]
                                    THEN VecAdd(CcSelfBefore(s), Diff(CcRow))
                                    ELSE CcSelfBefore(s)
            /\ buParent[CcRow] = 0 =>
                   \A x, y \in SymbolSet :
                       /\ CalleeCost(ccEntries', x, y) = CalleeCost(ccEntries, x, y)
                       /\ CallerCost(ccEntries', x, y) = CallerCost(ccEntries, x, y)
       /\ (pc' = "ccDone" /\ ccBuilds' = 1) =>
            SumVecs([s \in DOMAIN ccEntries' |->
                        ItemCostOf(ccSelf', ccEntries'[s].id, numTypes)], DOMAIN ccEntries')
                = LeafContributions(CcLeafRows)]_vars

(* the symbols on the chains of the rows walked so far in this build       *)
WalkedSymbols(upTo) ==
    UNION {Range(Chain(CcPlan[k])) : k \in {j \in 1..upTo : IsLeafRow(CcPlan[j])}}

(* C24: after a caller-callee build the table holds an entry for exactly   *)
(* the symbols on the walked parent chains, entries of different symbols   *)
(* have different ids, and an entry keeps the id it got when it was made   *)
C24_Entries ==
    [][/\ pc' = "ccDone" =>
            /\ DOMAIN ccEntries' = WalkedSymbols(Len(CcPlan))
            /\ \A a, b \in DOMAIN ccEntries' :
                   ccEntries'[a].id = ccEntries'[b].id => a = b
       /\ \A s \in CcSymbols :
              s \in DOMAIN ccEntries' /\ ccEntries'[s].id = ccEntries[s].id]_vars

(* the first build has ended with three entries, the last of them made by  *)
(* a later walk than the first                                             *)
C24_Witness ==
    /\ pc = "ccDone" /\ ccBuilds = 1
    /\ Cardinality(CcSymbols) = 3
    /\ {ccEntries[s].id : s \in CcSymbols} = {0, 1, 2}
    /\ Cardinality(CcLeafRows) >= 2
    /\ \E i \in CcLeafRows : Len(Chain(i)) = 1

(* ------------------ the comma of a collapsed template ------------------ *)
(* the first template prettifySymbol collapses in str: the text from the   *)
(* template's name on and the offset behind its '<'                        *)
OuterTemplate(str) ==
    LET pos == findStd(str, 0)
        symbol0 == Mid(str, pos)
        strip == startsWith(symbol0, <<StrCxx11, StrV1>>)
        symbol == IF strip # -1 THEN Mid(symbol0, strip) ELSE symbol0
        basic == startsWith(symbol, <<StrBasicString>>)
        one == startsWith(symbol, oneParameterTemplates)
        two == startsWith(symbol, twoParametersTemplates)
    IN [symbol |-> symbol,
        end |-> IF pos = -1 THEN -1
                ELSE IF basic # -1 THEN basic
                ELSE IF one # -1 THEN one
                ELSE two,
        two |-> pos # -1 /\ basic = -1 /\ one = -1 /\ two # -1]

(* the offset of the '>' that closes the bracket opened before offset      *)
RECURSIVE ClosingBracket(_, _, _)
ClosingBracket(str, offset, open) ==
    IF offset >= Len(str) THEN -1
    ELSE IF At(str, offset) \in {"<", "("} THEN ClosingBracket(str, offset + 1, open + 1)
    ELSE IF At(str, offset) \in {">", ")"}
         THEN IF open = 1 THEN offset ELSE ClosingBracket(str, offset + 1, open - 1)
    ELSE ClosingBracket(str, offset + 1, open)

(* the commas taken as the ends of the template's arguments lie before the *)
(* template's closing bracket                                              *)
CommaInsideTemplate(str) ==
    LET t == OuterTemplate(str)
        close == ClosingBracket(t.symbol, t.end, 1)
        comma1 == findSameDepth(t.symbol, t.end, ",", FALSE)
        comma2 == findSameDepth(t.symbol, comma1 + 1, ",", FALSE)
    IN (t.end # -1 /\ close # -1) =>
           /\ comma1 # -1 => comma1 < close
           /\ (t.two /\ comma1 # -1 /\ comma2 # -1) => comma2 < close

(* the arguments of the calls of Data::prettifySymbol made so far          *)
PrettifyArguments ==
    IF prettified = <<>> THEN {}
    ELSE {name} \cup {prettified[k] : k \in 1..(Len(prettified) - 1)}

(* C25: when prettifySymbol collapses a container template, the comma it   *)
(* takes as the end of the first (or second) type argument lies inside the *)
(* template's angle brackets, not behind its closing '>' (stated for the   *)
(* names a demangler prints and what the prettifier makes of them)         *)
C25_CommaInsideTemplate ==
    name \in DemangledNames => \A str \in PrettifyArguments : CommaInsideTemplate(str)

(* the first call alone: in a name as the demangler prints it the comma of *)
(* the outer template is inside its brackets                               *)
C25_FirstCall ==
    (name \in DemangledNames /\ Len(prettified) >= 1) => CommaInsideTemplate(name)

(* ------------------------------ RecordHost ----------------------------- *)
(* src/src/recordhost.cpp.  A QString is a string, a message built by      *)
(* tr(text).arg(value) is the pair <<text, value>> and the empty message   *)
(* {} is the empty tuple.  A signal is recorded with its argument in the   *)
(* order of emission; the slots connected in the constructor run inside    *)
(* the emission.                                                           *)
Hosts == {"localhost", "remote"}
RecordTypes == {"LaunchApplication", "AttachToProcess", "ProfileSystem"}
PidLists == {<<>>, <<"1">>}
NoMessage == <<>>
tr(text, value) == <<text, value>>
Signal(signal, value) == [signal |-> signal, value |-> value]

(* the files QFileInfo looks at                                            *)
QFileInfo(path) ==
    CASE path = "/tmp" ->
           [exists |-> TRUE, isDir |-> TRUE, isFile |-> FALSE,
            isWritable |-> TRUE, isExecutable |-> TRUE]
      [] path = "/proc" ->
           [exists |-> TRUE, isDir |-> TRUE, isFile |-> FALSE,
            isWritable |-> FALSE, isExecutable |-> TRUE]
      [] path = "/etc/passwd" ->
           [exists |-> TRUE, isDir |-> FALSE, isFile |-> TRUE,
            isWritable |-> FALSE, isExecutable |-> FALSE]
      [] path = "/usr/bin/ls" ->
           [exists |-> TRUE, isDir |-> FALSE, isFile |-> TRUE,
            isWritable |-> FALSE, isExecutable |-> TRUE]
      [] OTHER ->
           [exists |-> FALSE, isDir |-> FALSE, isFile |-> FALSE,
            isWritable |-> FALSE, isExecutable |-> FALSE]

(* QStandardPaths::findExecutable: the path of a program of $PATH          *)
findExecutable(program) == IF program = "ls" THEN "/usr/bin/ls" ELSE ""

Directories == {"/tmp", "/proc", "/etc/passwd", "/missing"}
Applications == {"/usr/bin/ls", "ls", "/tmp", "/etc/passwd", "/missing"}
(* an output file is the folder it lies in and its name, the name split    *)
(* before its extension                                                    *)
OutputFile(folder, stem, extension) ==
    [folder |-> folder, stem |-> stem, extension |-> extension]
OutputFiles == {OutputFile(d, "perf", e) : d \in Directories, e \in {".data", ".txt"}}
NoOutputFile == OutputFile("", "", "")

isLocal == m_host = "localhost"

(* the fields RecordHost::isReady reads                                    *)
HostState ==
    [isPerfInstalled |-> m_isPerfInstalled, error |-> m_error,
     recordType |-> m_recordType, clientApplication |-> m_clientApplication,
     pids |-> m_pids, capabilitiesJob |-> m_checkPerfCapabilitiesJob.running,
     installedJob |-> m_checkPerfInstalledJob.running]

isReady_IgnoreError(h) ==
    IF ~h.isPerfInstalled THEN FALSE
    ELSE IF h.recordType = "LaunchApplication" /\ h.clientApplication = "" THEN FALSE
    ELSE IF h.recordType = "AttachToProcess" /\ h.pids = <<>> THEN FALSE
    ELSE ~h.capabilitiesJob /\ ~h.installedJob

isReadyOf(h) ==
    IF ~h.isPerfInstalled THEN FALSE
    ELSE IF h.recordType = "LaunchApplication" /\ h.clientApplication = "" THEN FALSE
    ELSE IF h.recordType = "AttachToProcess" /\ h.pids = <<>> THEN FALSE
    ELSE h.error = NoMessage /\ ~h.capabilitiesJob /\ ~h.installedJob

isReady == isReadyOf(HostState)

(* the slot connectIsReady connects to a changed signal                    *)
isReadyChanged(h) == Signal("isReadyChanged", isReadyOf(h))

cwdError(cwd) ==
    LET folder == QFileInfo(cwd)
    IN  IF ~folder.exists THEN tr("Working directory folder cannot be found: %1", cwd)
        ELSE IF ~folder.isDir THEN tr("Working directory folder is not valid: %1", cwd)
        ELSE IF ~folder.isWritable
             THEN tr("Working directory folder is not writable: %1", cwd)
        ELSE NoMessage

applicationError(clientApplication) ==
    LET first == QFileInfo(clientApplication)
        application == IF ~first.exists THEN QFileInfo(findExecutable(clientApplication))
                       ELSE first
    IN  IF ~application.exists
        THEN tr("Application file cannot be found: %1", clientApplication)
        ELSE IF ~application.isFile
             THEN tr("Application file is not valid: %1", clientApplication)
        ELSE IF ~application.isExecutable
             THEN tr("Application file is not executable: %1", clientApplication)
        ELSE NoMessage

outputFileError(filePath) ==
    LET folder == QFileInfo(filePath.folder)
    IN  IF ~folder.exists
        THEN tr("Output file directory folder cannot be found: %1", filePath.folder)
        ELSE IF ~folder.isDir
             THEN tr("Output file directory folder is not valid: %1", filePath.folder)
        ELSE IF ~folder.isWritable
             THEN tr("Output file directory folder is not writable: %1", filePath.folder)
        ELSE IF filePath.extension # ".data" THEN tr("Output file must end with %1", ".data")
        ELSE NoMessage

(* a job of a JobTracker: startJob replaces the job under way, the result  *)
(* of a replaced job is dropped, and the job counts as running until the   *)
(* callback that takes its result has returned                             *)
NoJob == [running |-> FALSE, isLocal |-> FALSE]
startJob(local) == [running |-> TRUE, isLocal |-> local]

SetHost(host) ==
    /\ hostCall' = <<"setHost", host>>
    /\ IF host = m_host
       THEN /\ hostSignals' = <<>>
            /\ UNCHANGED <<m_host, m_cwd, m_clientApplication, m_perfCapabilities,
                           m_checkPerfCapabilitiesJob, m_checkPerfInstalledJob>>
       ELSE LET cleared == [HostState EXCEPT !.clientApplication = ""]
            IN  /\ m_host' = host
                /\ m_cwd' = ""
                /\ m_clientApplication' = ""
                /\ m_perfCapabilities' = FALSE
                /\ m_checkPerfCapabilitiesJob' = startJob(host = "localhost")
                /\ m_checkPerfInstalledJob' = startJob(host = "localhost")
                /\ hostSignals' = << Signal("isReadyChanged", FALSE),
                                     Signal("hostChanged", host),
                                     Signal("currentWorkingDirectoryChanged", ""),
                                     Signal("clientApplicationChanged", ""),
                                     isReadyChanged(cleared),
                                     Signal("perfCapabilitiesChanged", FALSE),
                                     isReadyChanged(cleared) >>
    /\ UNCHANGED <<m_error, m_outputFileName, m_recordType, m_pids, m_isPerfInstalled>>
    /\ UNCHANGED <<dataVars, recordVars, pageVars>>

(* the callback of the job that fetches the capabilities of perf           *)
CheckPerfCapabilitiesDone ==
    /\ m_checkPerfCapabilitiesJob.running
    /\ hostCall' = <<"perfCapabilities", TRUE>>
    /\ m_perfCapabilities' = TRUE
    /\ hostSignals' = << Signal("perfCapabilitiesChanged", TRUE), isReadyChanged(HostState) >>
    /\ m_checkPerfCapabilitiesJob' = NoJob
    /\ UNCHANGED <<m_host, m_error, m_cwd, m_clientApplication, m_outputFileName,
                   m_recordType, m_pids, m_isPerfInstalled, m_checkPerfInstalledJob>>
    /\ UNCHANGED <<dataVars, recordVars, pageVars>>

(* the callback of the job that looks for perf: on a remote host the job   *)
(* answers false                                                           *)
CheckPerfInstalledDone(found) ==
    /\ m_checkPerfInstalledJob.running
    /\ LET isInstalled == m_checkPerfInstalledJob.isLocal /\ found
           message == IF isInstalled THEN m_error ELSE tr("perf is not installed", "")
           after == [HostState EXCEPT !.isPerfInstalled = isInstalled, !.error = message]
       IN  /\ hostCall' = <<"isPerfInstalled", isInstalled>>
           /\ m_error' = message
           /\ m_isPerfInstalled' = isInstalled
           /\ hostSignals' =
                (IF isInstalled THEN <<>> ELSE << Signal("errorOccurred", message) >>)
                \o << Signal("isPerfInstalledChanged", isInstalled), isReadyChanged(after) >>
    /\ m_checkPerfInstalledJob' = NoJob
    /\ UNCHANGED <<m_host, m_cwd, m_clientApplication, m_outputFileName, m_recordType,
                   m_pids, m_perfCapabilities, m_checkPerfCapabilitiesJob>>
    /\ UNCHANGED <<dataVars, recordVars, pageVars>>

SetCurrentWorkingDirectory(cwd) ==
    /\ hostCall' = <<"setCurrentWorkingDirectory", cwd>>
    /\ IF isLocal
       THEN IF cwdError(cwd) # NoMessage
            THEN /\ m_error' = cwdError(cwd)
                 /\ hostSignals' = << Signal("errorOccurred", cwdError(cwd)) >>
                 /\ UNCHANGED m_cwd
            ELSE /\ m_error' = NoMessage
                 /\ m_cwd' = cwd
                 /\ hostSignals' = << Signal("errorOccurred", NoMessage),
                                      Signal("currentWorkingDirectoryChanged", cwd) >>
       ELSE /\ hostSignals' = <<>>
            /\ UNCHANGED <<m_error, m_cwd>>
    /\ UNCHANGED <<m_host, m_clientApplication, m_outputFileName, m_recordType, m_pids,
                   m_isPerfInstalled, m_perfCapabilities, m_checkPerfCapabilitiesJob,
                   m_checkPerfInstalledJob>>
    /\ UNCHANGED <<dataVars, recordVars, pageVars>>

SetClientApplication(clientApplication) ==
    /\ hostCall' = <<"setClientApplication", clientApplication>>
    /\ IF isLocal
       THEN IF applicationError(clientApplication) # NoMessage
            THEN /\ m_error' = applicationError(clientApplication)
                 /\ hostSignals' =
                      << Signal("errorOccurred", applicationError(clientApplication)) >>
                 /\ UNCHANGED m_clientApplication
            ELSE /\ m_error' = NoMessage
                 /\ m_clientApplication' = clientApplication
                 /\ hostSignals' =
                      << Signal("errorOccurred", NoMessage),
                         Signal("clientApplicationChanged", clientApplication),
                         isReadyChanged([HostState EXCEPT
                                           !.error = NoMessage,
                                           !.clientApplication = clientApplication]) >>
       ELSE /\ hostSignals' = <<>>
            /\ UNCHANGED <<m_error, m_clientApplication>>
    /\ UNCHANGED <<m_host, m_cwd, m_outputFileName, m_recordType, m_pids,
                   m_isPerfInstalled, m_perfCapabilities, m_checkPerfCapabilitiesJob,
                   m_checkPerfInstalledJob>>
    /\ UNCHANGED <<dataVars, recordVars, pageVars>>

SetOutputFileName_StoreInvalid(filePath) ==
    /\ hostCall' = <<"setOutputFileName", filePath>>
    /\ IF isLocal
       THEN /\ m_error' = outputFileError(filePath)
            /\ m_outputFileName' = filePath
            /\ hostSignals' = << Signal("errorOccurred", outputFileError(filePath)) >>
       ELSE /\ hostSignals' = <<>>
            /\ UNCHANGED <<m_error, m_outputFileName>>
    /\ UNCHANGED <<m_host, m_cwd, m_clientApplication, m_recordType, m_pids,
                   m_isPerfInstalled, m_perfCapabilities, m_checkPerfCapabilitiesJob,
                   m_checkPerfInstalledJob>>
    /\ UNCHANGED <<dataVars, recordVars, pageVars>>

SetOutputFileName(filePath) ==
    /\ hostCall' = <<"setOutputFileName", filePath>>
    /\ IF isLocal
       THEN IF outputFileError(filePath) # NoMessage
            THEN /\ m_error' = outputFileError(filePath)
                 /\ hostSignals' = << Signal("errorOccurred", outputFileError(filePath)) >>
                 /\ UNCHANGED m_outputFileName
            ELSE /\ m_error' = NoMessage
                 /\ m_outputFileName' = filePath
                 /\ hostSignals' = << Signal("errorOccurred", NoMessage),
                                      Signal("outputFileNameChanged", filePath) >>
       ELSE /\ hostSignals' = <<>>
            /\ UNCHANGED <<m_error, m_outputFileName>>
    /\ UNCHANGED <<m_host, m_cwd, m_clientApplication, m_recordType, m_pids,
                   m_isPerfInstalled, m_perfCapabilities, m_checkPerfCapabilitiesJob,
                   m_checkPerfInstalledJob>>
    /\ UNCHANGED <<dataVars, recordVars, pageVars>>

SetRecordType(type) ==
    /\ hostCall' = <<"setRecordType", type>>
    /\ IF m_recordType # type
       THEN /\ m_recordType' = type
            /\ m_pids' = <<>>
            /\ hostSignals' =
                 << Signal("recordTypeChanged", type),
                    isReadyChanged([HostState EXCEPT !.recordType = type]),
                    Signal("pidsChanged", <<>>),
                    isReadyChanged([HostState EXCEPT !.recordType = type, !.pids = <<>>]) >>
       ELSE /\ hostSignals' = <<>>
            /\ UNCHANGED <<m_recordType, m_pids>>
    /\ UNCHANGED <<m_host, m_error, m_cwd, m_clientApplication, m_outputFileName,
                   m_isPerfInstalled, m_perfCapabilities, m_checkPerfCapabilitiesJob,
                   m_checkPerfInstalledJob>>
    /\ UNCHANGED <<dataVars, recordVars, pageVars>>

SetPids(pids) ==
    /\ hostCall' = <<"setPids", pids>>
    /\ IF m_pids # pids
       THEN /\ m_pids' = pids
            /\ hostSignals' = << Signal("pidsChanged", pids),
                                 isReadyChanged([HostState EXCEPT !.pids = pids]) >>
       ELSE /\ hostSignals' = <<>>
            /\ UNCHANGED m_pids
    /\ UNCHANGED <<m_host, m_error, m_cwd, m_clientApplication, m_outputFileName,
                   m_recordType, m_isPerfInstalled, m_perfCapabilities,
                   m_checkPerfCapabilitiesJob, m_checkPerfInstalledJob>>
    /\ UNCHANGED <<dataVars, recordVars, pageVars>>

(* the RecordHost after its constructor                                    *)
NewRecordHost ==
    /\ m_host = ""
    /\ m_error = NoMessage
    /\ m_cwd = ""
    /\ m_clientApplication = ""
    /\ m_outputFileName = NoOutputFile
    /\ m_recordType = "LaunchApplication"
    /\ m_pids = <<>>
    /\ m_isPerfInstalled = FALSE
    /\ m_perfCapabilities = FALSE
    /\ m_checkPerfCapabilitiesJob = NoJob
    /\ m_checkPerfInstalledJob = NoJob
    /\ hostCall = <<>>
    /\ hostSignals = <<>>
(* ------------------------------ PerfRecordSSH -------------------------- *)
(* src/src/settingsdialog.cpp, PerfRecordSSH.  m_recordProcess is          *)
(* "null", or points to a process that is "running" or has "finished";     *)
(* m_outputFile is the QFile the output of perf is written to.  The        *)
(* finished slot is connected directly, so it runs inside                  *)
(* waitForFinished when stopRecording ends the process.                    *)
EXIT_SUCCESS == 0
SIGTERM == 15
ExitCodes == {EXIT_SUCCESS, SIGTERM, 1}
QFile(fileName) == [fileName |-> fileName, size |-> 0]

(* the slot of QProcess::finished: the signals it emits; exists is the     *)
(* answer of m_outputFile->exists()                                        *)
finished(exitCode, userTerminated, file, exists) ==
    (IF (exitCode = EXIT_SUCCESS \/ (exitCode = SIGTERM /\ userTerminated) \/ file.size > 0)
        /\ exists
     THEN (IF exitCode # EXIT_SUCCESS /\ ~userTerminated
           THEN << Signal("debuggeeCrashed", <<>>) >> ELSE <<>>)
          \o << Signal("recordingFinished", file.fileName) >>
     ELSE << Signal("recordingFailed",
                    tr("Failed to record perf data, error code %1.", exitCode)) >>)
    \o << Signal("recordingFinished", file.fileName) >>

(* QProcess::finished of a recording that was not stopped                  *)
ProcessFinished(exitCode, exists) ==
    /\ m_recordProcess = "running"
    /\ recordSignals' = finished(exitCode, m_userTerminated, m_outputFile, exists)
    /\ m_userTerminated' = FALSE
    /\ m_recordProcess' = "finished"
    /\ recordCall' = [call |-> "finished", finished |-> TRUE, exitCode |-> exitCode]
    /\ UNCHANGED m_outputFile
    /\ UNCHANGED <<dataVars, hostVars, pageVars>>

(* the slot of readyReadStandardOutput                                     *)
ReadyReadStandardOutput ==
    /\ m_recordProcess = "running"
    /\ m_outputFile.size < MaxWritten
    /\ m_outputFile' = [m_outputFile EXCEPT !.size = @ + 1]
    /\ recordSignals' = <<>>
    /\ recordCall' = [call |-> "readyReadStandardOutput", finished |-> FALSE,
                      exitCode |-> EXIT_SUCCESS]
    /\ UNCHANGED <<m_recordProcess, m_userTerminated>>
    /\ UNCHANGED <<dataVars, hostVars, pageVars>>

(* what stopRecording leaves: the signals of the finished slot, if the     *)
(* process was running, and the flag                                       *)
stopRecording(exitCode, exists) ==
    IF m_recordProcess = "null"
    THEN [signals |-> <<>>, userTerminated |-> m_userTerminated, finished |-> FALSE]
    ELSE IF m_recordProcess = "running"
    THEN [signals |-> finished(exitCode, TRUE, m_outputFile, exists),
          userTerminated |-> FALSE, finished |-> TRUE]
    ELSE [signals |-> <<>>, userTerminated |-> TRUE, finished |-> FALSE]

StopRecording(exitCode, exists) ==
    LET stopped == stopRecording(exitCode, exists)
    IN  /\ recordSignals' = stopped.signals
        /\ m_userTerminated' = stopped.userTerminated
        /\ m_recordProcess' = "null"
        /\ recordCall' = [call |-> "stopRecording", finished |-> stopped.finished,
                          exitCode |-> IF stopped.finished THEN exitCode ELSE EXIT_SUCCESS]
        /\ UNCHANGED m_outputFile
        /\ UNCHANGED <<dataVars, hostVars, pageVars>>

folderError(folderPath) ==
    LET folderInfo == QFileInfo(folderPath)
    IN  IF ~folderInfo.exists THEN tr("Folder '%1' does not exist.", folderPath)
        ELSE IF ~folderInfo.isDir THEN tr("'%1' is not a folder.", folderPath)
        ELSE IF ~folderInfo.isWritable THEN tr("Folder '%1' is not writable.", folderPath)
        ELSE NoMessage

StartRecording(outputPath, exitCode, exists) ==
    LET stopped == stopRecording(exitCode, exists)
    IN  /\ m_userTerminated' = stopped.userTerminated
        /\ recordCall' = [call |-> "startRecording", finished |-> stopped.finished,
                          exitCode |-> IF stopped.finished THEN exitCode ELSE EXIT_SUCCESS]
        /\ IF folderError(outputPath.folder) # NoMessage
           THEN /\ recordSignals' = stopped.signals
                     \o << Signal("recordingFailed", folderError(outputPath.folder)) >>
                /\ m_recordProcess' = "null"
                /\ UNCHANGED m_outputFile
           ELSE /\ m_outputFile' = QFile(outputPath)
                /\ m_recordProcess' = "running"
                /\ recordSignals' = stopped.signals \o << Signal("recordingStarted", "perf") >>
        /\ UNCHANGED <<dataVars, hostVars, pageVars>>

(* the PerfRecordSSH after its constructor                                 *)
NewPerfRecordSSH ==
    /\ m_recordProcess = "null"
    /\ m_userTerminated = FALSE
    /\ m_outputFile = QFile(NoOutputFile)
    /\ recordCall = [call |-> "none", finished |-> FALSE, exitCode |-> EXIT_SUCCESS]
    /\ recordSignals = <<>>
(* -------------------------- ResultsDisassemblyPage --------------------- *)
(* src/src/settingsdialog.cpp, ResultsDisassemblyPage.  m_stackIndex       *)
(* counts from 0 as in the code, so the entry it names is                  *)
(* m_symbolStack[m_stackIndex + 1] here.  stackChanged is connected        *)
(* directly: its slot runs inside the event that emits it.                 *)
FunctionNames == {s.symbol : s \in SymbolSet} \cup {"unknown", ""}
ValidIndex(stack, index) == 0 <= index /\ index < Len(stack)
NoSymbol == Sym("", "")
NotHandled == [handled |-> FALSE, aborted |-> FALSE, back |-> TRUE, next |-> TRUE,
               entry |-> NoSymbol, disassembly |-> NoSymbol]

(* ResultsDisassemblyPage::showDisassembly: the symbol it disassembles     *)
showDisassembly(stack, curSymbol) == IF stack = <<>> THEN NoSymbol ELSE curSymbol

(* the slot of stackChanged.  Reading m_symbolStack[m_stackIndex] outside  *)
(* the stack is undefined: the read aborts (the assertion of a debug       *)
(* build) or yields some symbol.                                           *)
StackChangedSlot(stack, index) ==
    LET slot(aborted, curSymbol) ==
            [handled |-> TRUE, aborted |-> aborted,
             back |-> index > 0, next |-> index < Len(stack) - 1,
             entry |-> curSymbol,
             disassembly |-> IF aborted THEN NoSymbol
                             ELSE showDisassembly(stack, curSymbol)]
    IN  IF ValidIndex(stack, index) THEN {slot(FALSE, stack[index + 1])}
        ELSE {slot(TRUE, NoSymbol)} \cup {slot(FALSE, s) : s \in SymbolSet}

PageRuns == ~stackChanged.aborted

setSymbol(symbol) ==
    /\ PageRuns
    /\ pageCall' = <<"setSymbol", symbol>>
    /\ m_stackIndex' = 0
    /\ m_symbolStack' = <<symbol>>
    /\ stackChanged' \in StackChangedSlot(m_symbolStack', m_stackIndex')
    /\ UNCHANGED m_callerCalleeResults
    /\ UNCHANGED <<dataVars, hostVars, recordVars>>

setCostsMap(entries) ==
    /\ PageRuns
    /\ pageCall' = <<"setCostsMap", entries>>
    /\ m_callerCalleeResults' = entries
    /\ stackChanged' = [stackChanged EXCEPT !.handled = FALSE]
    /\ UNCHANGED <<m_symbolStack, m_stackIndex>>
    /\ UNCHANGED <<dataVars, hostVars, recordVars>>

StackBackButtonPressed_NoWrap ==
    /\ PageRuns
    /\ pageCall' = <<"stackBackButton", "">>
    /\ m_stackIndex' = m_stackIndex - 1
    /\ stackChanged' \in StackChangedSlot(m_symbolStack, m_stackIndex')
    /\ UNCHANGED <<m_symbolStack, m_callerCalleeResults>>
    /\ UNCHANGED <<dataVars, hostVars, recordVars>>

(* the slot of the pressed signal of ui->stackBackButton                   *)
StackBackButtonPressed ==
    /\ PageRuns
    /\ pageCall' = <<"stackBackButton", "">>
    /\ m_stackIndex' = IF m_stackIndex - 1 < 0 THEN Len(m_symbolStack) - 1
                       ELSE m_stackIndex - 1
    /\ stackChanged' \in StackChangedSlot(m_symbolStack, m_stackIndex')
    /\ UNCHANGED <<m_symbolStack, m_callerCalleeResults>>
    /\ UNCHANGED <<dataVars, hostVars, recordVars>>

(* the slot of the pressed signal of ui->stackNextButton                   *)
StackNextButtonPressed ==
    /\ PageRuns
    /\ pageCall' = <<"stackNextButton", "">>
    /\ m_stackIndex' = IF m_stackIndex + 1 >= Len(m_symbolStack) THEN 0
                       ELSE m_stackIndex + 1
    /\ stackChanged' \in StackChangedSlot(m_symbolStack, m_stackIndex')
    /\ UNCHANGED <<m_symbolStack, m_callerCalleeResults>>
    /\ UNCHANGED <<dataVars, hostVars, recordVars>>

(* std::find_if over the keys of the entries: a QHash has no order, so a   *)
(* name that several keys carry finds any of them                          *)
FindSymbol(functionName) == {s \in m_callerCalleeResults : s.symbol = functionName}

(* the slot of doubleClicked of ui->assemblyView: the view has rows once   *)
(* a symbol is disassembled, and functionName is the linked function of    *)
(* the row ("" on a row without one)                                       *)
AssemblyViewDoubleClicked(functionName) ==
    /\ PageRuns
    /\ ValidIndex(m_symbolStack, m_stackIndex)
    /\ pageCall' = <<"doubleClicked", functionName>>
    /\ IF functionName = "" \/ m_symbolStack[m_stackIndex + 1].symbol = functionName
          \/ FindSymbol(functionName) = {}
       THEN /\ stackChanged' = [stackChanged EXCEPT !.handled = FALSE]
            /\ UNCHANGED <<m_symbolStack, m_stackIndex>>
       ELSE /\ Len(m_symbolStack) < MaxStack
            /\ \E symbol \in FindSymbol(functionName) :
                   m_symbolStack' = Append(m_symbolStack, symbol)
            /\ m_stackIndex' = m_stackIndex + 1
            /\ stackChanged' \in StackChangedSlot(m_symbolStack', m_stackIndex')
    /\ UNCHANGED m_callerCalleeResults
    /\ UNCHANGED <<dataVars, hostVars, recordVars>>

(* the ResultsDisassemblyPage after its constructor                        *)
NewResultsDisassemblyPage ==
    /\ m_symbolStack = <<>>
    /\ m_stackIndex = 0
    /\ m_callerCalleeResults = {}
    /\ pageCall = <<>>
    /\ stackChanged = NotHandled

(* the other components at rest                                            *)
NoData ==
    /\ numTypes = 1
    /\ buParent = <<>>
    /\ buSymbol = <<>>
    /\ buCost = <<>>
    /\ name = <<>>
    /\ prettified = <<>>

(* ------------------- the readiness of the RecordHost ------------------- *)
RequiredInput ==
    /\ m_recordType = "LaunchApplication" => m_clientApplication # ""
    /\ m_recordType = "AttachToProcess" => m_pids # <<>>

(* C26: RecordHost::isReady() returns true only if perf is installed, the  *)
(* stored error message is empty, neither the capabilities job nor the     *)
(* perf-installed job is running and the input the record type requires    *)
(* is present (a client application for LaunchApplication, a pid for       *)
(* AttachToProcess, nothing for ProfileSystem), after any sequence of      *)
(* setter calls and job completions                                        *)
C26_IsReadyOnlyIf ==
    isReady =>
        /\ m_isPerfInstalled
        /\ m_error = NoMessage
        /\ ~m_checkPerfCapabilitiesJob.running
        /\ ~m_checkPerfInstalledJob.running
        /\ RequiredInput

(* ready to attach to a process without a client application, after a     *)
(* working directory was accepted                                          *)
C26_Witness ==
    /\ isReady
    /\ m_recordType = "AttachToProcess"
    /\ m_pids # <<>>
    /\ m_clientApplication = ""
    /\ hostCall = <<"setCurrentWorkingDirectory", "/tmp">>

(* ------------------- the validating setters of the RecordHost ---------- *)
SignalNames(signals) == {signals[k].signal : k \in 1..Len(signals)}

(* the step is the call of a validating setter on a local host, and it     *)
(* does what the validation's message demands                              *)
ValidatedSetter(call, value, message, old, new, changed) ==
    (hostCall' = <<call, value>> /\ isLocal) =>
        IF message # NoMessage
        THEN /\ hostSignals' = << Signal("errorOccurred", message) >>
             /\ new = old
             /\ changed \notin SignalNames(hostSignals')
        ELSE /\ new = value
             /\ m_error' = NoMessage
             /\ Signal(changed, value) \in Range(hostSignals')

(* C27: on a local host a setter whose validation fails                    *)
(* (setCurrentWorkingDirectory, setClientApplication, setOutputFileName)   *)
(* emits errorOccurred with a non-empty message, leaves the stored value   *)
(* unchanged and emits no changed signal; a setter whose validation        *)
(* succeeds stores the value, clears the stored error and emits the        *)
(* changed signal                                                          *)
C27_ValidatingSetters ==
    [][ /\ \A cwd \in Directories :
              ValidatedSetter("setCurrentWorkingDirectory", cwd, cwdError(cwd),
                              m_cwd, m_cwd', "currentWorkingDirectoryChanged")
        /\ \A clientApplication \in Applications :
              ValidatedSetter("setClientApplication", clientApplication,
                              applicationError(clientApplication),
                              m_clientApplication, m_clientApplication',
                              "clientApplicationChanged")
        /\ \A filePath \in OutputFiles :
              ValidatedSetter("setOutputFileName", filePath, outputFileError(filePath),
                              m_outputFileName, m_outputFileName',
                              "outputFileNameChanged") ]_vars

(* a rejected output file after an accepted one: the accepted one stays    *)
C27_Witness ==
    /\ isLocal
    /\ hostCall = <<"setOutputFileName", OutputFile("/tmp", "perf", ".txt")>>
    /\ m_error # NoMessage
    /\ m_outputFileName = OutputFile("/tmp", "perf", ".data")
    /\ m_clientApplication = "ls"

(* ------------------- the outcome of an SSH recording ------------------- *)
Emitted(signals, signal) ==
    Cardinality({k \in 1..Len(signals) : signals[k].signal = signal})

(* the last operation ran the slot of QProcess::finished and emitted       *)
(* nothing but the signals of that slot                                    *)
RecordProcessFinished ==
    recordCall.finished /\ recordCall.call \in {"finished", "stopRecording"}

(* C28: when the SSH record process finishes, PerfRecordSSH reports        *)
(* exactly one outcome for that recording: recordingFinished once          *)
(* (success, user termination or a non-empty output file) or               *)
(* recordingFailed once, never both and never recordingFinished twice      *)
C28_ExactlyOneOutcome ==
    RecordProcessFinished =>
        \/ /\ Emitted(recordSignals, "recordingFinished") = 1
           /\ Emitted(recordSignals, "recordingFailed") = 0
        \/ /\ Emitted(recordSignals, "recordingFinished") = 0
           /\ Emitted(recordSignals, "recordingFailed") = 1

(* what the slot does: the outcome it decided on, and then                 *)
(* recordingFinished once more                                             *)
C28_FinishedAfterOutcome ==
    RecordProcessFinished =>
        /\ Emitted(recordSignals, "recordingFinished")
             + Emitted(recordSignals, "recordingFailed") = 2
        /\ Emitted(recordSignals, "recordingFinished") >= 1
        /\ recordSignals[Len(recordSignals)].signal = "recordingFinished"

LinkedFunctionClicked(functionName) ==
    /\ pageCall' = <<"doubleClicked", functionName>>
    /\ functionName # ""
    /\ m_symbolStack[m_stackIndex + 1].symbol # functionName
    /\ FindSymbol(functionName) # {}

(* C30: after a double click on a linked function whose name differs from  *)
(* the current symbol and is found among the caller-callee entries, the    *)
(* current stack entry m_symbolStack[m_stackIndex] is the symbol of that   *)
(* function, whatever the position of m_stackIndex was before the click    *)
C30_LinkedFunctionIsCurrent ==
    [][ \A functionName \in FunctionNames :
            LinkedFunctionClicked(functionName) =>
                /\ m_symbolStack'[m_stackIndex' + 1].symbol = functionName
                /\ stackChanged'.entry.symbol = functionName ]_vars

(* what the slot does: the symbol is pushed at the end of the stack and    *)
(* the index moves one entry on, which is the pushed entry only if the     *)
(* index was at the last entry                                             *)
C30_PushedAtEnd ==
    [][ \A functionName \in FunctionNames :
            LinkedFunctionClicked(functionName) =>
                /\ m_symbolStack'[Len(m_symbolStack')].symbol = functionName
                /\ m_stackIndex' = m_stackIndex + 1
                /\ (m_stackIndex = Len(m_symbolStack) - 1
                      => m_symbolStack'[m_stackIndex' + 1].symbol = functionName) ]_vars

(* ------------------------------- init ---------------------------------- *)
ParentSeqs(n) == {p \in [1..n -> 0..(n - 1)] : \A i \in 1..n : p[i] < i}

NoResults ==
    /\ skipFirstLevel = FALSE
    /\ tdPos = 1
    /\ tdGroup = 0
    /\ tdNodes = <<>>
    /\ maxId = 0
    /\ tdIncl = EmptyCosts
    /\ tdSelf = EmptyCosts
    /\ plNodes = <<>>
    /\ plCosts = EmptyCosts
    /\ ccPos = 1
    /\ ccEntries = EmptyEntries
    /\ ccIncl = EmptyCosts
    /\ ccSelf = EmptyCosts
    /\ ccBuilds = 0

Init ==
    /\ numTypes \in 1..MaxTypes
    /\ \E n \in 0..MaxNodes :
         /\ buParent \in ParentSeqs(n)
         /\ buSymbol \in [1..n -> SymbolSet]
         /\ buCost \in [1..n -> CostVectors(numTypes)]
    /\ pc = "init"
    /\ NoResults
    /\ name = <<>>
    /\ prettified = <<>>
    /\ NewRecordHost
    /\ NewPerfRecordSSH
    /\ NewResultsDisassemblyPage

InitPrettify ==
    /\ numTypes = 1
    /\ buParent = <<>>
    /\ buSymbol = <<>>
    /\ buCost = <<>>
    /\ pc = "prettify"
    /\ NoResults
    /\ name \in Names
    /\ prettified = <<>>
    /\ NewRecordHost
    /\ NewPerfRecordSSH
    /\ NewResultsDisassemblyPage

Next ==
    \/ StartTopDown
    \/ TopDownGroup
    \/ TopDownRow
    \/ TopDownSum
    \/ FinishTopDown
    \/ FromTopDown
    \/ CallerCalleesFromBottomUpData
    \/ CallerCalleeRow
    \/ FinishCallerCallee

Spec == Init /\ [][Next]_vars

NextPrettify == PrettifySymbol

SpecPrettify == InitPrettify /\ [][NextPrettify]_vars

(* A build is a synchronous loop: once fromBottomUp or                     *)
(* callerCalleesFromBottomUpData has been entered, its next step is taken. *)
(* The calls themselves are the client's and are not forced.               *)
TopDownStep == TopDownGroup \/ TopDownRow \/ TopDownSum \/ FinishTopDown
CallerCalleeStep == CallerCalleeRow \/ FinishCallerCallee


(* termination does not depend on the amounts or on the names: one cost   *)
(* type, the three costs of a node, and symbols that are all different or  *)
(* all the same give every shape of tree of up to MaxFairNodes nodes,      *)
(* every choice of the rows that are leaf contributions, and walks with    *)
(* and without recursion                                                   *)
FairSymbols(n) == {[i \in 1..n |-> <<SymMain, SymFoo, SymBar>>[((i - 1) % 3) + 1]],
                   [i \in 1..n |-> SymMain]}

InitFair ==
    /\ numTypes = 1
    /\ \E n \in 0..MaxFairNodes :
         /\ buParent \in ParentSeqs(n)
         /\ buSymbol \in FairSymbols(n)
         /\ buCost \in [1..n -> CostVectors(1)]
    /\ pc = "init"
    /\ NoResults
    /\ name = <<>>
    /\ prettified = <<>>
    /\ NewRecordHost
    /\ NewPerfRecordSSH
    /\ NewResultsDisassemblyPage

SpecFair ==
    InitFair /\ [][Next]_vars /\ WF_vars(TopDownStep) /\ WF_vars(CallerCalleeStep)
(* -------------------- the specifications of the user interface --------- *)
(* the three components after their constructors                           *)
InitUi ==
    /\ NoData
    /\ pc = "ui"
    /\ NoResults
    /\ NewRecordHost
    /\ NewPerfRecordSSH
    /\ NewResultsDisassemblyPage

NextHost ==
    \/ \E host \in Hosts : SetHost(host)
    \/ CheckPerfCapabilitiesDone
    \/ \E found \in BOOLEAN : CheckPerfInstalledDone(found)
    \/ \E cwd \in Directories : SetCurrentWorkingDirectory(cwd)
    \/ \E clientApplication \in Applications : SetClientApplication(clientApplication)
    \/ \E filePath \in OutputFiles : SetOutputFileName(filePath)
    \/ \E type \in RecordTypes : SetRecordType(type)
    \/ \E pids \in PidLists : SetPids(pids)

SpecHost == InitUi /\ [][NextHost]_vars

NextRecord ==
    \/ \E outputPath \in OutputFiles, exitCode \in ExitCodes, exists \in BOOLEAN :
           StartRecording(outputPath, exitCode, exists)
    \/ ReadyReadStandardOutput
    \/ \E exitCode \in ExitCodes, exists \in BOOLEAN : ProcessFinished(exitCode, exists)
    \/ \E exitCode \in ExitCodes, exists \in BOOLEAN : StopRecording(exitCode, exists)

SpecRecord == InitUi /\ [][NextRecord]_vars

NextPage ==
    \/ \E symbol \in SymbolSet : setSymbol(symbol)
    \/ \E entries \in SUBSET SymbolSet : setCostsMap(entries)
    \/ StackBackButtonPressed
    \/ StackNextButtonPressed
    \/ \E functionName \in FunctionNames : AssemblyViewDoubleClicked(functionName)

SpecPage == InitUi /\ [][NextPage]_vars
====
